---------------------------- MODULE Spec2Model ----------------------------
(***************************************************************************)
(* A state-machine model of rr's PerfCounters (src/src/PerfCounters.cc):   *)
(* the per-task ticks counter, the process-wide bug probes it consults,    *)
(* and the part of the kernel's perf_event interface it drives; and of the *)
(* diversion controller (src/src/diverter.cc) and of the replay loop       *)
(* (src/src/replayer/replayer.c).                                          *)
(***************************************************************************)
EXTENDS Integers, Sequences, FiniteSets, TLC

(***************************************************************************)
(* Bounds of the model.                                                    *)
(***************************************************************************)
\* largest value a counter reaches before the traced task is held back
MaxTicks == 3
\* largest sample period passed to reset()
MaxPeriod == 2
\* thread ids a counter is bound to, and of the tasks of a session: 1..MaxTid
MaxTid == 2
\* largest number of references the debugger takes on a diversion
MaxRefs == 2
\* addresses of the child the debugger sets breakpoints at: 1..MaxAddr
MaxAddr == 1
\* slots of the breakpoint table
MaxBreakpoints == 2
\* largest number of memory arguments a syscall frame pushes
MaxEmuArgs == 2
\* largest number of SIGCHLDs swallowed in one advance of the child
MaxSigchld == 1

(***************************************************************************)
(* Program constants.                                                      *)
(***************************************************************************)
\* static const int NUM_BRANCHES = 500;
NUM_BRANCHES == 500

VARIABLES
  \* ---- the host: fixed for the life of the process
  env,
  \* ---- statics of PerfCounters.cc
  statics,
  \* ---- the PerfCounters object
  constructed, tid, started, counting, fds,
  \* ---- the process
  aborted,
  \* ---- observation of the last operation
  lastOp, lastArg, ret, reads, ioctls, resetMode, signals,
  stopTotal, resumed, prevOp, firstChoice,
  \* ---- statics of diverter.cc
  session, diversion_refcount,
  \* ---- divert(): its position, its locals t and *req
  dpc, dt, dreq,
  \* ---- observation of the last step of divert()
  dlast, dabort, wasZero,
  \* ---- statics of replayer.c
  validate, breakpoint_table,
  \* ---- replay(): its position, its local dbg, the scheduler's threads
  rpc, dbg, threads,
  \* ---- replay_one_trace_frame(): ctx, its trace frame, its locals req and
  \* ---- step, the child's pending signal and memory
  ctx_tid, trace_frame, rreq, cur_step, child_sig, child_memory,
  \* ---- observation: whether req has been assigned in this frame, validate
  \* ---- at the head of the frame, the last step of the replayer
  reqAssigned, headValidate, rlast, rfatal

\* the variables of the ticks counter
pcvars == <<env, statics, constructed, tid, started, counting, fds, aborted,
            lastOp, lastArg, ret, reads, ioctls, resetMode, signals,
            stopTotal, resumed, prevOp, firstChoice>>

\* the variables of the diversion controller
dvvars == <<session, diversion_refcount, dpc, dt, dreq, dlast, dabort,
            wasZero>>

\* the variables of the replayer
rpvars == <<validate, breakpoint_table, rpc, dbg, threads, ctx_tid,
            trace_frame, rreq, cur_step, child_sig, child_memory,
            reqAssigned, headValidate, rlast, rfatal>>

vars == <<pcvars, dvvars, rpvars>>

(***************************************************************************)
(* Sample periods are 64-bit; a period is held in two limbs, hi * 2^60 +   *)
(* lo, so that uint64_t(1) << 60 is a value of the model.  Counter values  *)
(* stay below 2^60 (they are bounded by MaxTicks).                         *)
(***************************************************************************)
Period(p) == [hi |-> 0, lo |-> p]

\* line 384: ticks_period = uint64_t(1) << 60
HugePeriod == [hi |-> 1, lo |-> 0]

PeriodIsZero(per) == per.hi = 0 /\ per.lo = 0

Tids == 1..MaxTid
Periods == 0..MaxPeriod

Slots == {"fd_ticks_interrupt", "fd_ticks_measure", "fd_ticks_in_transaction",
          "fd_useless_counter", "fd_hw_interrupts", "fd_instructions_retired",
          "fd_page_faults"}

(***************************************************************************)
(* A ScopedFd and the perf event behind it.  closes counts the close(2)    *)
(* calls made on the descriptor this slot held last.                       *)
(***************************************************************************)
ClosedFd(n) ==
  [open |-> FALSE, period |-> Period(0), cfg |-> "none", enabled |-> FALSE,
   value |-> 0, owner |-> 0, async |-> FALSE, closes |-> n]

\* ScopedFd::close(): close(2) the descriptor if one is held
ScopedFdClose(f) == IF f.open THEN ClosedFd(f.closes + 1) ELSE f

\* perf_event_open succeeded: a fresh, enabled event counting from 0.  A
\* kernel without IN_TXCP support answers EINVAL and start_counter opens the
\* event again without the bit.
start_counter(e, cfg, per) ==
  [open |-> TRUE, period |-> per,
   cfg |-> IF cfg = "IN_TXCP" /\ ~e.kernel_in_txcp THEN "none" ELSE cfg,
   enabled |-> TRUE, value |-> 0, owner |-> 0, async |-> FALSE, closes |-> 0]


(***************************************************************************)
(* The kernel's ioctls on a perf event.  On a closed descriptor every      *)
(* ioctl fails (EBADF).  PERF_EVENT_IOC_PERIOD fails (EINVAL) for a period *)
(* of 0 and for an event opened without a sample period.                   *)
(***************************************************************************)
Ioctl(f, cmd, arg) ==
  IF ~f.open THEN [fd |-> f, ok |-> FALSE]
  ELSE CASE cmd = "RESET"   -> [fd |-> [f EXCEPT !.value = 0], ok |-> TRUE]
         [] cmd = "ENABLE"  -> [fd |-> [f EXCEPT !.enabled = TRUE], ok |-> TRUE]
         [] cmd = "DISABLE" -> [fd |-> [f EXCEPT !.enabled = FALSE], ok |-> TRUE]
         [] cmd = "PERIOD"  ->
              IF PeriodIsZero(arg) \/ PeriodIsZero(f.period)
              THEN [fd |-> f, ok |-> FALSE]
              ELSE [fd |-> [f EXCEPT !.period = arg], ok |-> TRUE]

(***************************************************************************)
(* The PMU table and the detection of the microarchitecture.  A string is  *)
(* the sequence of its characters.                                         *)
(***************************************************************************)
\* static const PmuConfig pmu_configs[], in the order of the source
pmu_configs ==
  <<
     [uarch |-> "IntelKabylake", supported |-> TRUE,
      name |-> <<"I", "n", "t", "e", "l", " ", "K", "a", "b", "y", "l", "a", "k", "e">>],
     [uarch |-> "IntelSilvermont", supported |-> TRUE,
      name |-> <<"I", "n", "t", "e", "l", " ", "S", "i", "l", "v", "e", "r", "m", "o", "n", "t">>],
     [uarch |-> "IntelSkylake", supported |-> TRUE,
      name |-> <<"I", "n", "t", "e", "l", " ", "S", "k", "y", "l", "a", "k", "e">>],
     [uarch |-> "IntelBroadwell", supported |-> TRUE,
      name |-> <<"I", "n", "t", "e", "l", " ", "B", "r", "o", "a", "d", "w", "e", "l", "l">>],
     [uarch |-> "IntelHaswell", supported |-> TRUE,
      name |-> <<"I", "n", "t", "e", "l", " ", "H", "a", "s", "w", "e", "l", "l">>],
     [uarch |-> "IntelIvyBridge", supported |-> TRUE,
      name |-> <<"I", "n", "t", "e", "l", " ", "I", "v", "y", " ", "B", "r", "i", "d", "g", "e">>],
     [uarch |-> "IntelSandyBridge", supported |-> TRUE,
      name |-> <<"I", "n", "t", "e", "l", " ", "S", "a", "n", "d", "y", " ", "B", "r", "i", "d", "g", "e">>],
     [uarch |-> "IntelNehalem", supported |-> TRUE,
      name |-> <<"I", "n", "t", "e", "l", " ", "N", "e", "h", "a", "l", "e", "m">>],
     [uarch |-> "IntelWestmere", supported |-> TRUE,
      name |-> <<"I", "n", "t", "e", "l", " ", "W", "e", "s", "t", "m", "e", "r", "e">>],
     [uarch |-> "IntelPenryn", supported |-> FALSE,
      name |-> <<"I", "n", "t", "e", "l", " ", "P", "e", "n", "r", "y", "n">>],
     [uarch |-> "IntelMerom", supported |-> FALSE,
      name |-> <<"I", "n", "t", "e", "l", " ", "M", "e", "r", "o", "m">>]
  >>

UpperCase ==
  <<"A", "B", "C", "D", "E", "F", "G", "H", "I", "J", "K", "L", "M", "N", "O", "P", "Q", "R", "S", "T", "U", "V", "W", "X", "Y", "Z">>
LowerCase ==
  <<"a", "b", "c", "d", "e", "f", "g", "h", "i", "j", "k", "l", "m", "n", "o", "p", "q", "r", "s", "t", "u", "v", "w", "x", "y", "z">>

\* ::tolower on one character
tolower(c) ==
  IF \E i \in DOMAIN UpperCase : UpperCase[i] = c
  THEN LowerCase[CHOOSE i \in DOMAIN UpperCase : UpperCase[i] = c]
  ELSE c

\* lowercase(const string& s)
lowercase(str) == [i \in DOMAIN str |-> tolower(str[i])]

\* name.npos != name.find(sub)
find(name, sub) ==
  \E i \in 1..(Len(name) - Len(sub) + 1) :
    SubSeq(name, i, i + Len(sub) - 1) = sub

\* cpuid_data.eax & 0xF0FF0: bits 4..11 and 16..19
cpu_type_of(eax) ==
  ((eax \div 16) % 256) * 16 + ((eax \div 65536) % 16) * 65536

\* the switch of get_cpu_microarch(), lines 124-165:
\*   IntelMerom        0x006F0, 0x10660
\*   IntelPenryn       0x10670, 0x106D0
\*   IntelNehalem      0x106A0, 0x106E0, 0x206E0
\*   IntelWestmere     0x20650, 0x206C0, 0x206F0
\*   IntelSandyBridge  0x206A0, 0x206D0, 0x306e0
\*   IntelIvyBridge    0x306A0
\*   IntelHaswell      0x306C0, 0x306F0, 0x40650, 0x40660
\*   IntelBroadwell    0x306D0, 0x406F0, 0x50660
\*   IntelSkylake      0x406e0, 0x506e0
\*   IntelSilvermont   0x50670
\*   IntelKabylake     0x806e0, 0x906e0
cpu_uarch(cpu_type) ==
  CASE
       cpu_type \in {1776, 67168} -> "IntelMerom"
    [] cpu_type \in {67184, 67280} -> "IntelPenryn"
    [] cpu_type \in {67232, 67296, 132832} -> "IntelNehalem"
    [] cpu_type \in {132688, 132800, 132848} -> "IntelWestmere"
    [] cpu_type \in {132768, 132816, 198368} -> "IntelSandyBridge"
    [] cpu_type \in {198304} -> "IntelIvyBridge"
    [] cpu_type \in {198336, 198384, 263760, 263776} -> "IntelHaswell"
    [] cpu_type \in {198352, 263920, 329312} -> "IntelBroadwell"
    [] cpu_type \in {263904, 329440} -> "IntelSkylake"
    [] cpu_type \in {329328} -> "IntelSilvermont"
    [] cpu_type \in {526048, 591584} -> "IntelKabylake"
    [] OTHER -> "UnknownCpu"

\* mutant of get_cpu_microarch: forced_uarch is compared as it was typed
get_cpu_microarch_case_sensitive(e) ==
  LET forced_uarch == e.forced_uarch
      Matching == {i \in DOMAIN pmu_configs :
                     find(lowercase(pmu_configs[i].name), forced_uarch)}
  IN  IF forced_uarch # <<>>
      THEN IF Matching = {}
           THEN [uarch |-> "UnknownCpu", fatal |-> "forced_uarch_unknown"]
           ELSE [uarch |-> pmu_configs[CHOOSE i \in Matching :
                                          \A j \in Matching : i <= j].uarch,
                 fatal |-> "no"]
      ELSE LET u == cpu_uarch(cpu_type_of(e.cpuid_eax)) IN
           [uarch |-> u,
            fatal |-> IF u = "UnknownCpu" THEN "cpu_unknown" ELSE "no"]

\* get_cpu_microarch(): the first table entry whose lowercased name contains
\* the lowercased forced_uarch, FATAL when there is none; with no
\* forced_uarch, the microarchitecture of the CPUID model bits, FATAL when
\* they are unknown
get_cpu_microarch(e) ==
  LET forced_uarch == lowercase(e.forced_uarch)
      Matching == {i \in DOMAIN pmu_configs :
                     find(lowercase(pmu_configs[i].name), forced_uarch)}
  IN  IF forced_uarch # <<>>
      THEN IF Matching = {}
           THEN [uarch |-> "UnknownCpu", fatal |-> "forced_uarch_unknown"]
           ELSE [uarch |-> pmu_configs[CHOOSE i \in Matching :
                                          \A j \in Matching : i <= j].uarch,
                 fatal |-> "no"]
      ELSE LET u == cpu_uarch(cpu_type_of(e.cpuid_eax)) IN
           [uarch |-> u,
            fatal |-> IF u = "UnknownCpu" THEN "cpu_unknown" ELSE "no"]

\* init_attributes(), lines 189-196: the first table entry of the given
\* microarchitecture
lookup(uarch) ==
  CHOOSE i \in DOMAIN pmu_configs :
    /\ pmu_configs[i].uarch = uarch
    /\ \A j \in DOMAIN pmu_configs : pmu_configs[j].uarch = uarch => i <= j

(***************************************************************************)
(* The statics of PerfCounters.cc and the functions that fill them.  Each  *)
(* returns the statics it leaves, its value, and whether it ended the      *)
(* process (FATAL or a failed assert).  kvm_probe_opens and                *)
(* ioc_probe_opens count the perf_event_open calls each probe has made;    *)
(* pmu is the index of the table entry init_attributes selected, 0 before; *)
(* ioc_probe_attr is the ticks_attr the IOC_PERIOD probe copied.           *)
(***************************************************************************)
InitStatics ==
  [attributes_initialized |-> FALSE, ticks_attr |-> "zero",
   activate_useless_counter |-> FALSE,
   kvm_did_test |-> FALSE, kvm_bug_detected |-> TRUE,
   ioc_did_test |-> FALSE, ioc_bug_detected |-> TRUE,
   kvm_probe_opens |-> 0, ioc_probe_opens |-> 0, ioc_probe_attr |-> "none",
   pmu |-> 0]

\* what an uninitialised read may produce in has_kvm_in_txcp_bug when the
\* probe's perf_event_open failed: the assert on the short read fires, or
\* (asserts compiled out) any count
Undefined == {"assert", "lt", "ge"}

RECURSIVE init_attributes(_, _)
RECURSIVE has_ioc_period_bug(_, _)

\* has_ioc_period_bug(), lines 346-362: the probe itself, after
\* init_attributes() has answered i
ioc_period_probe(i, e) ==
  IF i.fatal # "no"
  THEN [st |-> i.st, val |-> FALSE, fatal |-> i.fatal]
  ELSE IF ~e.perf_enabled
  THEN [st |-> [i.st EXCEPT !.ioc_probe_opens = @ + 1,
                            !.ioc_probe_attr = i.st.ticks_attr],
        val |-> FALSE, fatal |-> "perf_event_open"]
  ELSE [st |-> [i.st EXCEPT !.ioc_probe_opens = @ + 1,
                            !.ioc_probe_attr = i.st.ticks_attr,
                            !.ioc_bug_detected = ~e.ioc_poll_pending],
        val |-> ~e.ioc_poll_pending, fatal |-> "no"]

has_ioc_period_bug(s, e) ==
  IF s.ioc_did_test
  THEN [st |-> s, val |-> s.ioc_bug_detected, fatal |-> "no"]
  ELSE IF e.under_rr
  THEN [st |-> [s EXCEPT !.ioc_did_test = TRUE, !.ioc_bug_detected = FALSE],
        val |-> FALSE, fatal |-> "no"]
  ELSE ioc_period_probe(init_attributes([s EXCEPT !.ioc_did_test = TRUE], e),
                        e)

\* init_attributes(), lines 212-225: the useless counter follows the
\* answer r of has_ioc_period_bug(), and ticks_attr is filled in
activate_counters(r, e) ==
  IF r.fatal # "no"
  THEN [st |-> r.st, fatal |-> r.fatal]
  ELSE [st |-> [r.st EXCEPT
                  !.activate_useless_counter = r.val /\ ~e.under_rr,
                  !.ticks_attr = "rcb"],
        fatal |-> "no"]

\* init_attributes(), lines 189-211: the table entry of the
\* microarchitecture u must be a supported one
select_pmu(s, e, u) ==
  IF u.fatal # "no"
  THEN [st |-> s, fatal |-> u.fatal]
  ELSE IF ~pmu_configs[lookup(u.uarch)].supported
  THEN [st |-> [s EXCEPT !.pmu = lookup(u.uarch)],
        fatal |-> "uarch_unsupported"]
  ELSE activate_counters(
         has_ioc_period_bug([s EXCEPT !.pmu = lookup(u.uarch)], e), e)

init_attributes(s, e) ==
  IF s.attributes_initialized
  THEN [st |-> s, fatal |-> "no"]
  ELSE select_pmu([s EXCEPT !.attributes_initialized = TRUE], e,
                  get_cpu_microarch(e))

\* has_kvm_in_txcp_bug(), lines 304-323: the probe itself, after
\* init_attributes() has answered i
kvm_in_txcp_probe(i, e, ub) ==
  IF i.fatal # "no"
  THEN [st |-> i.st, val |-> FALSE, fatal |-> i.fatal]
  ELSE IF (~e.perf_enabled \/ ~e.kernel_in_txcp) /\ ub = "assert"
  THEN [st |-> [i.st EXCEPT !.kvm_probe_opens = @ + 1], val |-> FALSE,
        fatal |-> "read_counter"]
  ELSE LET bug == IF ~e.perf_enabled \/ ~e.kernel_in_txcp
                  THEN ub = "lt"
                  ELSE e.txcp_probe_count < NUM_BRANCHES
       IN  [st |-> [i.st EXCEPT !.kvm_probe_opens = @ + 1,
                                !.kvm_bug_detected = bug],
            val |-> bug, fatal |-> "no"]

has_kvm_in_txcp_bug(s, e, ub) ==
  IF s.kvm_did_test
  THEN [st |-> s, val |-> s.kvm_bug_detected, fatal |-> "no"]
  ELSE IF e.under_rr
  THEN [st |-> [s EXCEPT !.kvm_did_test = TRUE, !.kvm_bug_detected = FALSE],
        val |-> FALSE, fatal |-> "no"]
  ELSE kvm_in_txcp_probe(
         init_attributes([s EXCEPT !.kvm_did_test = TRUE], e), e, ub)

\* mutant of always_recreate_counters: only the IN_TXCP probe is consulted
always_recreate_counters_kvm_only(s, e, ub) == has_kvm_in_txcp_bug(s, e, ub)

\* always_recreate_counters(): has_ioc_period_bug() || has_kvm_in_txcp_bug()
always_recreate_counters(s, e, ub) ==
  LET r == has_ioc_period_bug(s, e) IN
  IF r.fatal # "no" \/ r.val THEN r ELSE has_kvm_in_txcp_bug(r.st, e, ub)

(***************************************************************************)
(* The PerfCounters object: [tid, started, counting, fds].                 *)
(***************************************************************************)
NoFds == [sl \in Slots |-> ClosedFd(0)]

\* PerfCounters::PerfCounters(pid_t tid)
NewCounters(t) ==
  [tid |-> t, started |-> FALSE, counting |-> FALSE, fds |-> NoFds]

\* mutant of stop: the useless counter is left open
stop_leaks_useless(o) ==
  IF ~o.started THEN o
  ELSE [o EXCEPT !.started = FALSE,
                 !.fds = [sl \in Slots |->
                            IF sl = "fd_useless_counter" THEN o.fds[sl]
                            ELSE ScopedFdClose(o.fds[sl])]]

\* mutant of stop: the descriptors are closed and started is left set
stop_keeps_started(o) ==
  IF ~o.started THEN o
  ELSE [o EXCEPT !.fds = [sl \in Slots |-> ScopedFdClose(o.fds[sl])]]

\* PerfCounters::stop()
stop(o) ==
  IF ~o.started THEN o
  ELSE [o EXCEPT !.started = FALSE,
                 !.fds = [sl \in Slots |-> ScopedFdClose(o.fds[sl])]]

\* PerfCounters::set_tid(pid_t tid)
set_tid(o, t) == [stop(o) EXCEPT !.tid = t]

\* the ioctl branch of stop_counting(), lines 499-505
disable_counters(o) ==
  LET Touched == {"fd_ticks_interrupt"} \cup
                 {sl \in {"fd_ticks_measure", "fd_ticks_in_transaction"} :
                    o.fds[sl].open}
  IN  [o |-> [o EXCEPT !.fds = [sl \in Slots |->
                        IF sl \in Touched
                        THEN Ioctl(o.fds[sl], "DISABLE", Period(0)).fd
                        ELSE o.fds[sl]]],
       ioctls |-> {<<sl, "DISABLE">> : sl \in Touched}]

\* mutant of stop_counting: counting is left as it was
stop_counting_keeps_counting(o, arc) ==
  IF arc THEN [o |-> stop(o), ioctls |-> {}] ELSE disable_counters(o)

\* mutant of stop_counting: the counters are only disabled, whatever the probes say
stop_counting_never_stops(o, arc) ==
  disable_counters([o EXCEPT !.counting = FALSE])

\* mutant of stop_counting: the counters are closed, whatever the probes say
stop_counting_always_stops(o, arc) ==
  [o |-> stop([o EXCEPT !.counting = FALSE]), ioctls |-> {}]

\* PerfCounters::stop_counting(), given always_recreate_counters()'s answer
stop_counting(o, arc) ==
  LET o1 == [o EXCEPT !.counting = FALSE]
  IN  IF arc THEN [o |-> stop(o1), ioctls |-> {}] ELSE disable_counters(o1)

\* mutant of ticks_period_for: a period of 0 is programmed as it is
ticks_period_as_given(p, arc) == Period(p)

\* reset(), lines 381-385: the period the counters are programmed with
ticks_period_for(p, arc) ==
  IF p = 0 /\ ~arc THEN HugePeriod ELSE Period(p)

\* reset(), lines 394-399: the in-transaction counter is opened on a host
\* with the KVM IN_TXCP bug
in_transaction_counter(o, e, kvm_bug) ==
  IF kvm_bug THEN start_counter(e, "IN_TX", Period(0))
  ELSE o.fds["fd_ticks_in_transaction"]

\* mutant of measure_counter: the measure counter is opened on every host
measure_counter_always(o, e, kvm_bug) ==
  start_counter(e, "IN_TXCP", Period(0))

\* reset(), lines 400-416: the measure counter is opened on a host without
\* the bug
measure_counter(o, e, kvm_bug) ==
  IF kvm_bug THEN o.fds["fd_ticks_measure"]
  ELSE start_counter(e, "IN_TXCP", Period(0))

\* reset(), lines 387-438: open the counters from scratch
recreate(o, s, e, per, kvm_bug) ==
  LET interrupt == [start_counter(e, "none", per) EXCEPT
                      !.owner = o.tid, !.async = TRUE]
      extra(sl) == IF e.extra_perf_counters
                   THEN start_counter(e, "none", Period(0))
                   ELSE o.fds[sl]
  IN  [sl \in Slots |->
        CASE sl = "fd_ticks_interrupt" -> interrupt
          [] sl = "fd_ticks_in_transaction" -> in_transaction_counter(o, e, kvm_bug)
          [] sl = "fd_ticks_measure" -> measure_counter(o, e, kvm_bug)
          [] sl = "fd_useless_counter" ->
               IF s.activate_useless_counter /\ ~o.fds[sl].open
               THEN start_counter(e, "none", Period(0))
               ELSE o.fds[sl]
          [] OTHER -> extra(sl)]

\* a sequence of ioctls on one descriptor, each with its argument
RECURSIVE IoctlSeq(_, _)
IoctlSeq(f, cmds) ==
  IF cmds = <<>> THEN [fd |-> f, ok |-> TRUE]
  ELSE LET a == Ioctl(f, Head(cmds)[1], Head(cmds)[2])
           r == IoctlSeq(a.fd, Tail(cmds))
       IN  [fd |-> r.fd, ok |-> a.ok /\ r.ok]

\* the ioctls of sequence cmds, as issued on slot sl
Issued(sl, cmds) == {<<sl, cmds[k][1]>> : k \in DOMAIN cmds}

\* the ioctl branch of reset() with the given ioctls: on the interrupt
\* counter, and on the measure and in-transaction counters when open
reprogram_with(o, onInterrupt, onOthers) ==
  LET Others == {sl \in {"fd_ticks_measure", "fd_ticks_in_transaction"} :
                   o.fds[sl].open}
      i == IoctlSeq(o.fds["fd_ticks_interrupt"], onInterrupt)
      r == [sl \in Others |-> IoctlSeq(o.fds[sl], onOthers)]
  IN  [fds |-> [sl \in Slots |->
                  IF sl = "fd_ticks_interrupt" THEN i.fd
                  ELSE IF sl \in Others THEN r[sl].fd ELSE o.fds[sl]],
       ok |-> i.ok /\ \A sl \in Others : r[sl].ok,
       ioctls |-> Issued("fd_ticks_interrupt", onInterrupt) \cup
                  UNION {Issued(sl, onOthers) : sl \in Others}]

\* mutant of reprogram: no counter is reset to zero
reprogram_no_reset(o, per) ==
  reprogram_with(o, <<<<"PERIOD", per>>, <<"ENABLE", Period(0)>>>>,
                 <<<<"ENABLE", Period(0)>>>>)

\* reset(), lines 440-467: re-program the open counters by ioctl
reprogram(o, per) ==
  reprogram_with(o,
                 <<<<"RESET", Period(0)>>, <<"PERIOD", per>>,
                   <<"ENABLE", Period(0)>>>>,
                 <<<<"RESET", Period(0)>>, <<"ENABLE", Period(0)>>>>)

\* PerfCounters::reset(Ticks ticks_period)
reset(o, s, e, p, ub) ==
  LET a == IF p = 0 THEN always_recreate_counters(s, e, ub)
           ELSE [st |-> s, val |-> FALSE, fatal |-> "no"]
      per == ticks_period_for(p, a.val)
      done(fs) == [o EXCEPT !.fds = fs, !.started = TRUE, !.counting = TRUE]
      dead(st, why) == [o |-> o, st |-> st, fatal |-> why, mode |-> "none",
                        ioctls |-> {}]
  IN  IF a.fatal # "no" THEN dead(a.st, a.fatal)
      ELSE IF ~o.started
      THEN IF ~e.perf_enabled THEN dead(a.st, "perf_event_open")
           ELSE LET k == has_kvm_in_txcp_bug(a.st, e, ub) IN
                IF k.fatal # "no" THEN dead(k.st, k.fatal)
                ELSE [o |-> done(recreate(o, k.st, e, per, k.val)), st |-> k.st,
                      fatal |-> "no", mode |-> "recreate", ioctls |-> {}]
      ELSE LET r == reprogram(o, per) IN
           IF ~r.ok THEN dead(a.st, "ioctl")
           ELSE [o |-> done(r.fds), st |-> a.st, fatal |-> "no",
                 mode |-> "ioctl", ioctls |-> r.ioctls]

\* mutant of tie_break: the measure counter's value is returned whenever it
\* is open
tie_break_measure(measure_open, interrupt_val, measure_val) ==
  IF ~measure_open THEN interrupt_val ELSE measure_val

\* read_ticks(), lines 530-548: the value returned from the interrupt
\* counter's value and, when the measure counter is open, its value
tie_break(measure_open, interrupt_val, measure_val) ==
  IF ~measure_open THEN interrupt_val
  ELSE IF measure_val > interrupt_val THEN interrupt_val
  ELSE measure_val

\* read_ticks() with the given value of Flags::get().force_things: val is
\* -1 when nothing is returned
read_ticks_forced(o, force_things) ==
  IF ~o.started \/ ~o.counting
  THEN [val |-> 0, reads |-> {}, fatal |-> "no"]
  ELSE LET tx == o.fds["fd_ticks_in_transaction"]
           i  == o.fds["fd_ticks_interrupt"]
           m  == o.fds["fd_ticks_measure"]
           r1 == IF tx.open THEN {"fd_ticks_in_transaction"} ELSE {}
       IN  IF tx.open /\ tx.value > 0 /\ ~force_things
           THEN [val |-> -1, reads |-> r1, fatal |-> "ASSERT"]
           ELSE IF ~i.open
           THEN [val |-> -1, reads |-> r1 \cup {"fd_ticks_interrupt"},
                 fatal |-> "read_counter"]
           ELSE [val |-> tie_break(m.open, i.value, m.value),
                 reads |-> r1 \cup {"fd_ticks_interrupt"}
                              \cup (IF m.open THEN {"fd_ticks_measure"} ELSE {}),
                 fatal |-> "no"]

\* mutant of read_ticks: force_things is not consulted, the assertion is
\* never raised
read_ticks_never_asserts(o, e) == read_ticks_forced(o, TRUE)

\* PerfCounters::read_ticks(Task* t)
read_ticks(o, e) == read_ticks_forced(o, e.force_things)

(***************************************************************************)
(* The traced task runs: one event at a time.  "branch" is a retired       *)
(* conditional branch outside any transaction, "tx_branch" one inside an   *)
(* aborted hardware transaction, "spurious" the anomaly in which only an   *)
(* IN_TXCP event counts.                                                   *)
(***************************************************************************)
Events == {"branch", "tx_branch", "spurious"}

Counts(cfg, ev) ==
  CASE cfg = "none"    -> ev \in {"branch", "tx_branch"}
    [] cfg = "IN_TX"   -> ev = "tx_branch"
    [] cfg = "IN_TXCP" -> ev \in {"branch", "spurious"}

TicksFds == {"fd_ticks_interrupt", "fd_ticks_measure", "fd_ticks_in_transaction"}

Counting(fs, ev) ==
  {sl \in TicksFds : fs[sl].open /\ fs[sl].enabled /\ Counts(fs[sl].cfg, ev)}

\* the interrupt counter overflows: the kernel sends the time-slice signal
Overflows(f) ==
  /\ f.async
  /\ f.period.hi = 0 /\ f.period.lo > 0
  /\ (f.value + 1) % f.period.lo = 0

(***************************************************************************)
(* The diversion controller (src/src/diverter.cc).  divert() blocks in     *)
(* dbg_get_request(); one step of the model runs from one request to the   *)
(* next, or to the return of divert().                                     *)
(***************************************************************************)
\* signal numbers: SIGTRAP and, for a signal break, SIGSEGV
SIGTRAP == 5
SIGSEGV == 11

\* the address a watchpoint break reports
WatchAddress == 4096

\* thread ids a debugger request names: those of the session's tasks and
\* one that no task has
Targets == 1..(MaxTid + 1)

ResumeTypes == {"DREQ_CONTINUE", "DREQ_STEP"}

\* the requests of lines 68-77
BreakTypes == {"DREQ_REMOVE_SW_BREAK", "DREQ_REMOVE_HW_BREAK",
               "DREQ_REMOVE_RD_WATCH", "DREQ_REMOVE_WR_WATCH",
               "DREQ_REMOVE_RDWR_WATCH", "DREQ_SET_SW_BREAK",
               "DREQ_SET_HW_BREAK", "DREQ_SET_RD_WATCH", "DREQ_SET_WR_WATCH",
               "DREQ_SET_RDWR_WATCH"}

\* what dbg_get_request() may return: target is 0 where the request has none
DRequests ==
  [type : {"DREQ_STEP", "DREQ_SET_QUERY_THREAD"}, target : Targets]
  \cup [type : {"DREQ_CONTINUE", "DREQ_RESTART", "DREQ_READ_SIGINFO",
                "DREQ_WRITE_SIGINFO", "DREQ_GET_REGS", "DREQ_SET_SW_BREAK",
                "DREQ_REMOVE_SW_BREAK", "DREQ_SET_RD_WATCH",
                "DREQ_REMOVE_HW_BREAK"},
        target : {0}]

NoRequest == [type |-> "none", target |-> 0]

\* what diversion_step() may return
StepResults ==
  [status : {"DIVERSION_EXITED"}, reason : {"BREAK_NONE"}, signal : {0},
   watch_address : {0}, task : {0}]
  \cup [status : {"DIVERSION_CONTINUE"},
        reason : {"BREAK_NONE", "BREAK_BREAKPOINT", "BREAK_SINGLESTEP"},
        signal : {0}, watch_address : {0}, task : Tids]
  \cup [status : {"DIVERSION_CONTINUE"}, reason : {"BREAK_SIGNAL"},
        signal : {SIGSEGV}, watch_address : {0}, task : Tids]
  \cup [status : {"DIVERSION_CONTINUE"}, reason : {"BREAK_WATCHPOINT"},
        signal : {0}, watch_address : {WatchAddress}, task : Tids]

\* dbg_is_resume_request()
dbg_is_resume_request(req) == req.type \in ResumeTypes

\* Session::find_task(tid): the task of that tid, 0 (nullptr) if none
find_task(target) == IF target \in Tids THEN target ELSE 0

\* get_threadid(t) == req->target, lines 95-100 and 117
get_threadid(t) == t

\* mutant of write_siginfo: the reference is dropped without the assertion
write_siginfo_unchecked(refcount) == [refcount |-> refcount - 1, fatal |-> "no"]

\* lines 58-66: assert(diversion_refcount > 0); --diversion_refcount
write_siginfo(refcount) ==
  IF refcount > 0 THEN [refcount |-> refcount - 1, fatal |-> "no"]
  ELSE [refcount |-> refcount, fatal |-> "assert(diversion_refcount > 0)"]

\* mutant of break_request: a breakpoint request is dispatched to the
\* diversion whatever the refcount
break_request_always_dispatched(refcount) == "dispatch"

\* lines 68-85: a breakpoint or watchpoint request in a dying diversion
\* returns to the replay session
break_request(refcount) == IF refcount = 0 THEN "return_null" ELSE "dispatch"

\* mutant of resume_request: a resume request never ends the diversion
resume_request_never_dying(refcount) == "return_t"

\* lines 33-38: a resume request returns nullptr from a dying diversion and
\* the current task otherwise
resume_request(refcount) ==
  IF refcount = 0 THEN "return_null" ELSE "return_t"

\* one iteration of the loop of process_debugger_requests(), lines 30-92,
\* on request req with current task t: what becomes of the refcount and of
\* t, and whether the function returns nullptr, returns t, or goes on to the
\* next request (having dispatched req to the session or not)
process_debugger_request(refcount, t, req) ==
  LET same(outcome) == [refcount |-> refcount, t |-> t, outcome |-> outcome,
                        fatal |-> "no"]
  IN  IF dbg_is_resume_request(req)
      THEN same(resume_request(refcount))
      ELSE CASE req.type = "DREQ_RESTART" -> same("return_null")
             [] req.type = "DREQ_READ_SIGINFO" ->
                  [same("continue") EXCEPT !.refcount = refcount + 1]
             [] req.type = "DREQ_SET_QUERY_THREAD" ->
                  [same("dispatch") EXCEPT
                     !.t = IF find_task(req.target) # 0
                           THEN find_task(req.target) ELSE t]
             [] req.type = "DREQ_WRITE_SIGINFO" ->
                  LET w == write_siginfo(refcount) IN
                  [same("continue") EXCEPT !.refcount = w.refcount,
                                           !.fatal = w.fatal]
             [] req.type \in BreakTypes -> same(break_request(refcount))
             [] OTHER -> same("dispatch")

\* mutant of run_command: every Step request single-steps
run_command_any_step(req, t) ==
  IF req.type = "DREQ_STEP" THEN "RUN_SINGLESTEP" ELSE "RUN_CONTINUE"

\* lines 116-119
run_command(req, t) ==
  IF req.type = "DREQ_STEP" /\ get_threadid(t) = req.target
  THEN "RUN_SINGLESTEP" ELSE "RUN_CONTINUE"

\* mutant of stop_notification: every break is reported as SIGTRAP
stop_notification_sigtrap(result) ==
  [kind |-> "stop", thread |-> get_threadid(result.task), sig |-> SIGTRAP,
   watch_addr |-> IF result.reason = "BREAK_WATCHPOINT"
                  THEN result.watch_address ELSE 0]

\* lines 133-148: the dbg_notify_stop() for a break
stop_notification(result) ==
  [kind |-> "stop", thread |-> get_threadid(result.task),
   sig |-> IF result.reason = "BREAK_SIGNAL" THEN result.signal ELSE SIGTRAP,
   watch_addr |-> IF result.reason = "BREAK_WATCHPOINT"
                  THEN result.watch_address ELSE 0]

\* lines 122-148: what divert() does with the result of diversion_step():
\* the refcount it leaves, the notifications it sends, whether it leaves
\* the loop
after_step(refcount, result) ==
  IF result.status = "DIVERSION_EXITED"
  THEN [refcount |-> 0,
        notes |-> <<[kind |-> "exit_code", thread |-> 0, sig |-> 0,
                     watch_addr |-> 0]>>,
        leave |-> TRUE]
  ELSE [refcount |-> refcount,
        notes |-> IF result.reason = "BREAK_NONE" THEN <<>>
                  ELSE <<stop_notification(result)>>,
        leave |-> FALSE]

\* mutant of end_divert: the assertion of line 152 is compiled out
end_divert_unchecked(refcount) ==
  [session |-> "null", killed |-> TRUE, fatal |-> "no"]

\* lines 151-154: assert(diversion_refcount == 0); kill_all_tasks();
\* session = nullptr
end_divert(refcount) ==
  IF refcount = 0
  THEN [session |-> "null", killed |-> TRUE, fatal |-> "no"]
  ELSE [session |-> "diversion", killed |-> FALSE,
        fatal |-> "assert(diversion_refcount == 0)"]

NoResult ==
  [status |-> "none", reason |-> "BREAK_NONE", signal |-> 0,
   watch_address |-> 0, task |-> 0]

\* nothing observed yet
NoObservation ==
  [op |-> "none", steps |-> 0, command |-> "none", notes |-> <<>>,
   dispatched |-> FALSE, ended |-> FALSE, why |-> "none", killed |-> FALSE,
   result |-> NoResult]

InitDiverter ==
  /\ session = "null"
  /\ diversion_refcount = 0
  /\ dpc = "idle"
  /\ dt = 0
  /\ dreq = NoRequest
  /\ dlast = NoObservation
  /\ dabort = "no"
  /\ wasZero = FALSE

(***************************************************************************)
(* The replay loop (src/src/replayer/replayer.c).  replay() blocks in      *)
(* dbg_get_request() and in waitpid(); one step of the model runs from one *)
(* of these to the next.                                                   *)
(***************************************************************************)
\* static const byte int_3_insn = 0xCC
int_3_insn == 204

\* the byte the recorded image holds at every address of Addrs
OriginalByte == 144

\* addresses in the child that the debugger names; 0 is NULL
Addrs == 1..MaxAddr

\* an address of the child the debugger never names
Elsewhere == MaxAddr + 1

\* the slots of breakpoint_table (MAX_NUM_BREAKPOINTS of them in the source)
BreakpointSlots == 1..MaxBreakpoints

\* static const struct dbg_request continue_all_tasks
continue_all_tasks == [type |-> "DREQ_CONTINUE", target |-> -1, addr |-> 0]

\* what dbg_get_request() may return to the replayer
RRequests ==
  {continue_all_tasks}
  \cup [type : {"DREQ_STEP"}, target : Targets, addr : {0}]
  \cup [type : {"DREQ_GET_REGS", "DREQ_INTERRUPT", "DREQ_SET_HW_BREAK",
                "DREQ_RESTART"},
        target : {0}, addr : {0}]
  \cup [type : {"DREQ_SET_SW_BREAK", "DREQ_REMOVE_SW_BREAK"}, target : {0},
        addr : Addrs]

\* what the storage of the local req may hold before it is assigned
GarbageRequests ==
  {continue_all_tasks} \cup [type : {"DREQ_STEP"}, target : Tids, addr : {0}]

\* requests answered by a reply and nothing else, lines 241-303
QueryTypes == {"DREQ_GET_CURRENT_THREAD", "DREQ_GET_IS_THREAD_ALIVE",
               "DREQ_GET_MEM", "DREQ_GET_OFFSETS", "DREQ_GET_REG",
               "DREQ_GET_REGS", "DREQ_GET_STOP_REASON", "DREQ_GET_THREAD_LIST"}

\* requests answered "unsupported", lines 317-326
HwBreakTypes == BreakTypes \ {"DREQ_SET_SW_BREAK", "DREQ_REMOVE_SW_BREAK"}

NoStep == [action |-> "none", emu |-> FALSE, num_emu_args |-> 0,
           emu_ret |-> FALSE]

Retire == [NoStep EXCEPT !.action = "TSTEP_RETIRE"]

\* the steps rep_process_syscall() asks for
SyscallSteps(state) ==
  IF state = "STATE_SYSCALL_ENTRY"
  THEN {Retire} \cup [action : {"TSTEP_ENTER_SYSCALL"}, emu : BOOLEAN,
                      num_emu_args : {0}, emu_ret : {FALSE}]
  ELSE [action : {"TSTEP_EXIT_SYSCALL"}, emu : BOOLEAN,
        num_emu_args : {0, MaxEmuArgs}, emu_ret : BOOLEAN]

\* the frames of a trace: stop reason, state, and for a syscall the step
\* rep_process_syscall() asks for
TraceFrames ==
  [stop_reason : {"USR_INIT_SCRATCH_MEM", "USR_EXIT", "USR_FLUSH", "signal"},
   state : {"STATE_SYSCALL_ENTRY"}, step : {Retire}]
  \cup UNION {[stop_reason : {"SYS_execve", "SYS_other"}, state : {st},
               step : SyscallSteps(st)] :
              st \in {"STATE_SYSCALL_ENTRY", "STATE_SYSCALL_EXIT"}}

NoFrame == [stop_reason |-> "none", state |-> "none", step |-> NoStep]

\* what the waits of one advance report: n SIGCHLDs, then no signal, a
\* SIGTRAP with the address just before EIP, or another signal
WaitOutcomes ==
  [sigchld : 0..MaxSigchld, sig : {"none", "SIGTRAP", "other"},
   before_eip : Addrs \cup {Elsewhere}, regs_match : BOOLEAN]

EmptyTable == [i \in BreakpointSlots |-> [addr |-> 0, overwritten_data |-> 0]]

\* find_breakpoint(addr): the first slot of that address, 0 (NULL) if none
find_breakpoint(table, addr) ==
  IF \E i \in BreakpointSlots : table[i].addr = addr
  THEN CHOOSE i \in BreakpointSlots :
         /\ table[i].addr = addr
         /\ \A j \in BreakpointSlots : table[j].addr = addr => i <= j
  ELSE 0

\* set_sw_breakpoint(): the table and the child's memory it leaves
set_sw_breakpoint(table, mem, addr) ==
  LET bp == find_breakpoint(table, 0) IN
  IF bp = 0
  THEN [table |-> table, memory |-> mem, fatal |-> "assert(bp)"]
  ELSE [table |-> [table EXCEPT ![bp] = [addr |-> addr,
                                         overwritten_data |-> mem[addr]]],
        memory |-> [mem EXCEPT ![addr] = int_3_insn],
        fatal |-> "no"]

\* remove_sw_breakpoint()
remove_sw_breakpoint(table, mem, addr) ==
  LET bp == find_breakpoint(table, addr) IN
  IF bp = 0
  THEN [table |-> table, memory |-> mem, fatal |-> "no"]
  ELSE [table |-> [table EXCEPT ![bp] = [addr |-> 0, overwritten_data |-> 0]],
        memory |-> [mem EXCEPT ![addr] = table[bp].overwritten_data],
        fatal |-> "no"]

\* eip_is_breakpoint(eip), given the address eip - sizeof(int_3_insn)
eip_is_breakpoint(table, before_eip) == find_breakpoint(table, before_eip) # 0

\* try_one_trace_step(), line 490
stepi_of(request, t) ==
  request.type = "DREQ_STEP" /\ get_threadid(t) = request.target

\* the ptrace request of cont_syscall_boundary(), lines 370-382
ptrace_request(emu, stepi) ==
  IF emu
  THEN IF stepi THEN "PTRACE_SYSEMU_SINGLESTEP" ELSE "PTRACE_SYSEMU"
  ELSE IF stepi THEN "PTRACE_SINGLESTEP" ELSE "PTRACE_SYSCALL"

\* mutant of cont_syscall_boundary: an unrecorded signal is passed over
cont_syscall_boundary_ignores_signal(emu, stepi, w) ==
  [ops |-> [k \in 1..(2 * (w.sigchld + 1)) |->
              IF k % 2 = 1 THEN ptrace_request(emu, stepi) ELSE "waitpid"]
           \o (IF w.sig # "SIGTRAP" THEN <<"rep_child_buffer0">> ELSE <<>>),
   ret |-> IF w.sig = "SIGTRAP" THEN 1 ELSE 0,
   child_sig |-> w.sig,
   emergency |-> FALSE]

\* cont_syscall_boundary(): the calls it makes and what it returns; a
\* SIGCHLD is swallowed and the advance made again
cont_syscall_boundary(emu, stepi, w) ==
  [ops |-> [k \in 1..(2 * (w.sigchld + 1)) |->
              IF k % 2 = 1 THEN ptrace_request(emu, stepi) ELSE "waitpid"]
           \o (IF w.sig = "none" THEN <<"rep_child_buffer0">>
               ELSE IF w.sig = "other" THEN <<"emergency_debug">> ELSE <<>>),
   ret |-> IF w.sig = "SIGTRAP" THEN 1 ELSE 0,
   child_sig |-> w.sig,
   emergency |-> w.sig = "other"]

\* validate_args(): nothing before the execve, then the register files are
\* compared and a difference is fatal
validate_args(valid, w) ==
  IF ~valid THEN [ops |-> <<>>, fatal |-> "no"]
  ELSE [ops |-> <<"compare_register_files">>,
        fatal |-> IF w.regs_match THEN "no" ELSE "register mismatch"]

\* step_exit_syscall_emu()
step_exit_syscall_emu ==
  <<"read_child_registers", "PTRACE_SYSEMU_SINGLESTEP", "waitpid",
    "write_child_registers">>

Repeat(op, n) == [k \in 1..n |-> op]

\* enter_syscall()
enter_syscall(st, stepi, valid, w) ==
  LET c == cont_syscall_boundary(st.emu, stepi, w)
      v == validate_args(valid, w)
  IN  IF c.emergency \/ c.ret # 0
      THEN [ops |-> c.ops, ret |-> c.ret, child_sig |-> c.child_sig,
            emergency |-> c.emergency, fatal |-> "no"]
      ELSE [ops |-> c.ops \o v.ops, ret |-> 0, child_sig |-> "none",
            emergency |-> FALSE, fatal |-> v.fatal]

\* mutant of exit_syscall: the recorded data is pushed before the boundary
\* is reached
exit_syscall_pushes_first(st, stepi, valid, w) ==
  LET c == IF ~st.emu THEN cont_syscall_boundary(st.emu, stepi, w)
           ELSE [ops |-> <<>>, ret |-> 0, child_sig |-> "kept",
                 emergency |-> FALSE]
      v == validate_args(valid, w)
      push == Repeat("set_child_data", st.num_emu_args)
  IN  IF c.emergency \/ c.ret # 0
      THEN [ops |-> push \o c.ops, ret |-> c.ret, child_sig |-> c.child_sig,
            emergency |-> c.emergency, fatal |-> "no"]
      ELSE [ops |-> push \o c.ops
                    \o (IF st.emu_ret THEN <<"set_return_value">> ELSE <<>>)
                    \o v.ops
                    \o (IF st.emu /\ v.fatal = "no"
                        THEN step_exit_syscall_emu ELSE <<>>),
            ret |-> 0, child_sig |-> c.child_sig, emergency |-> FALSE,
            fatal |-> v.fatal]

\* exit_syscall(); child_sig is "kept" when no wait is made
exit_syscall(st, stepi, valid, w) ==
  LET c == IF ~st.emu THEN cont_syscall_boundary(st.emu, stepi, w)
           ELSE [ops |-> <<>>, ret |-> 0, child_sig |-> "kept",
                 emergency |-> FALSE]
      v == validate_args(valid, w)
  IN  IF c.emergency \/ c.ret # 0
      THEN [ops |-> c.ops, ret |-> c.ret, child_sig |-> c.child_sig,
            emergency |-> c.emergency, fatal |-> "no"]
      ELSE [ops |-> c.ops \o Repeat("set_child_data", st.num_emu_args)
                    \o (IF st.emu_ret THEN <<"set_return_value">> ELSE <<>>)
                    \o v.ops
                    \o (IF st.emu /\ v.fatal = "no"
                        THEN step_exit_syscall_emu ELSE <<>>),
            ret |-> 0, child_sig |-> c.child_sig, emergency |-> FALSE,
            fatal |-> v.fatal]

\* try_one_trace_step()
try_one_trace_step(st, request, t, valid, w) ==
  LET stepi == stepi_of(request, t) IN
  CASE st.action = "TSTEP_RETIRE" ->
         [ops |-> <<>>, ret |-> 0, child_sig |-> "kept", emergency |-> FALSE,
          fatal |-> "no"]
    [] st.action = "TSTEP_ENTER_SYSCALL" ->
         enter_syscall(st, stepi, valid, w)
    [] st.action = "TSTEP_EXIT_SYSCALL" ->
         exit_syscall(st, stepi, valid, w)
    [] OTHER ->
         [ops |-> <<>>, ret |-> 0, child_sig |-> "kept", emergency |-> FALSE,
          fatal |-> "Unhandled step type"]

\* replay_one_trace_frame(), lines 525-566: what the frame's stop reason
\* asks for, the value of validate after it, and whether the task is gone
interpret_frame(valid, fr) ==
  CASE fr.stop_reason = "USR_INIT_SCRATCH_MEM" ->
         [ops |-> <<"replay_init_scratch_memory", "add_scratch">>,
          step |-> Retire, validate |-> valid, exited |-> FALSE]
    [] fr.stop_reason = "USR_EXIT" ->
         [ops |-> <<"rep_sched_deregister_thread">>, step |-> NoStep,
          validate |-> valid, exited |-> TRUE]
    [] fr.stop_reason = "USR_FLUSH" ->
         [ops |-> <<"rep_process_flush">>, step |-> Retire,
          validate |-> valid, exited |-> FALSE]
    [] fr.stop_reason = "signal" ->
         [ops |-> <<"rep_process_signal">>, step |-> Retire,
          validate |-> valid, exited |-> FALSE]
    [] OTHER ->
         [ops |-> <<"rep_process_syscall">>, step |-> fr.step,
          validate |-> valid \/ (fr.state = "STATE_SYSCALL_EXIT"
                                 /\ fr.stop_reason = "SYS_execve"),
          exited |-> FALSE]

\* mutant of trap_notification: the stop carries no signal
trap_notification_no_signal(d, t) ==
  [thread |-> get_threadid(t), sig |-> 0,
   to |-> IF d THEN "dbg" ELSE "NULL"]

\* replay_one_trace_frame(), line 585: dbg_notify_stop(dbg,
\* get_threadid(ctx), 0x05); d tells whether dbg is a debugger or NULL
trap_notification(d, t) ==
  [thread |-> get_threadid(t), sig |-> SIGTRAP,
   to |-> IF d THEN "dbg" ELSE "NULL"]

\* mutant of post_frame: the ticks counter is reset after every frame
post_frame_always_resets(fr) == <<"reset_hpc(0)", "debug_memory">>

\* replay_one_trace_frame(), lines 602-605: the end of a retired frame
post_frame(fr) ==
  (IF fr.stop_reason # "USR_FLUSH" THEN <<"reset_hpc(0)">> ELSE <<>>)
  \o <<"debug_memory">>

\* nothing the replayer has done yet
NoReplayObservation ==
  [op |-> "none", ops |-> <<>>, requests |-> 0, stops |-> <<>>,
   exits |-> 0, retired |-> FALSE, ret |-> 0, before_eip |-> 0]

InitReplayer ==
  /\ validate = FALSE
  /\ dbg = FALSE
  /\ rpc = "off"
  /\ threads = {}
  /\ ctx_tid = 0
  /\ rreq = continue_all_tasks
  /\ reqAssigned = FALSE
  /\ headValidate = FALSE
  /\ trace_frame = NoFrame
  /\ cur_step = NoStep
  /\ child_sig = "none"
  /\ breakpoint_table = EmptyTable
  /\ child_memory = [a \in Addrs |-> OriginalByte]
  /\ rlast = NoReplayObservation
  /\ rfatal = "no"

(***************************************************************************)
(* The state machine.                                                      *)
(***************************************************************************)
Obj == [tid |-> tid, started |-> started, counting |-> counting, fds |-> fds]

\* the total read_ticks reports for o (0 when not started and counting)
ticks_total(o) ==
  IF ~o.started \/ ~o.counting THEN 0
  ELSE tie_break(o.fds["fd_ticks_measure"].open,
                 o.fds["fd_ticks_interrupt"].value,
                 o.fds["fd_ticks_measure"].value)

\* CPUID leaf 1 EAX of the hosts considered: Haswell 0x306C3, Merom 0x6FB,
\* Penryn 0x10676, Skylake 0x506E3, Ivy Bridge-EP 0x306E4 and a CPU that is
\* not in the switch, 0x800F11
CpuidEaxs == {198339, 1787, 67190, 329443, 198372, 8392465}

\* values of Flags::get().forced_uarch considered: none, "Haswell",
\* "BRIDGE", "intel", "merom", "i7"
ForcedUarchs ==
  {<<>>, <<"H", "a", "s", "w", "e", "l", "l">>, <<"B", "R", "I", "D", "G", "E">>,
   <<"i", "n", "t", "e", "l">>, <<"m", "e", "r", "o", "m">>, <<"i", "7">>}

\* hosts with a detected, supported microarchitecture
Envs ==
  [under_rr : BOOLEAN, perf_enabled : BOOLEAN, kernel_in_txcp : BOOLEAN,
   txcp_probe_count : {NUM_BRANCHES - 1, NUM_BRANCHES},
   ioc_poll_pending : BOOLEAN, extra_perf_counters : BOOLEAN,
   force_things : BOOLEAN, cpuid_eax : {198339}, forced_uarch : {<<>>}]

\* hosts of every CPU and forced_uarch considered, with working perf events
PmuEnvs ==
  [under_rr : {FALSE}, perf_enabled : {TRUE}, kernel_in_txcp : {TRUE},
   txcp_probe_count : {NUM_BRANCHES},
   ioc_poll_pending : {TRUE}, extra_perf_counters : {FALSE},
   force_things : {FALSE}, cpuid_eax : CpuidEaxs, forced_uarch : ForcedUarchs]

InitFrom(E) ==
  /\ env \in E
  /\ statics = InitStatics
  /\ constructed = FALSE
  /\ tid = 0
  /\ started = FALSE
  /\ counting = FALSE
  /\ fds = NoFds
  /\ aborted = "no"
  /\ lastOp = "none"
  /\ lastArg = 0
  /\ ret = -1
  /\ reads = {}
  /\ ioctls = {}
  /\ resetMode = "none"
  /\ signals = 0
  /\ stopTotal = -1
  /\ resumed = -1
  /\ prevOp = "none"
  /\ firstChoice = "none"
  /\ InitDiverter
  /\ InitReplayer

Init == InitFrom(Envs)

InitPmu == InitFrom(PmuEnvs)

\* the object takes the value o
Becomes(o) ==
  /\ tid' = o.tid
  /\ started' = o.started
  /\ counting' = o.counting
  /\ fds' = o.fds

\* what an operation that is not read_ticks, reset or stop_counting observes
Observe(op, arg) ==
  /\ lastOp' = op
  /\ lastArg' = arg

\* the process ends inside operation op
Dies(op, arg, st, why) ==
  /\ aborted' = why
  /\ statics' = st
  /\ Observe(op, arg)
  /\ UNCHANGED <<env, constructed, tid, started, counting, fds, ret, reads,
                 ioctls, resetMode, signals, stopTotal, resumed, prevOp,
                 firstChoice>>

Live == aborted = "no"

New(t) ==
  /\ Live /\ ~constructed
  /\ UNCHANGED <<dvvars, rpvars>>
  /\ LET r == init_attributes(statics, env) IN
     IF r.fatal # "no" THEN Dies("new", t, r.st, r.fatal)
     ELSE /\ constructed' = TRUE
          /\ statics' = r.st
          /\ Becomes(NewCounters(t))
          /\ Observe("new", t)
          /\ UNCHANGED <<env, aborted, ret, reads, ioctls, resetMode, signals,
                         stopTotal, resumed, prevOp, firstChoice>>

Reset(p, ub) ==
  /\ Live /\ constructed
  /\ UNCHANGED <<dvvars, rpvars>>
  /\ LET r == reset(Obj, statics, env, p, ub) IN
     IF r.fatal # "no" THEN Dies("reset", p, r.st, r.fatal)
     ELSE /\ Becomes(r.o)
          /\ statics' = r.st
          /\ Observe("reset", p)
          /\ ret' = -1
          /\ reads' = {}
          /\ ioctls' = r.ioctls
          /\ resetMode' = r.mode
          /\ signals' = 0
          /\ resumed' = stopTotal
          /\ prevOp' = lastOp
          /\ stopTotal' = -1
          /\ firstChoice' =
               IF r.mode = "recreate" /\ firstChoice = "none"
               THEN IF r.o.fds["fd_ticks_measure"].open
                    THEN "fd_ticks_measure" ELSE "fd_ticks_in_transaction"
               ELSE firstChoice
          /\ UNCHANGED <<env, constructed, aborted>>

StopCounting(ub) ==
  /\ Live /\ constructed
  /\ UNCHANGED <<dvvars, rpvars>>
  /\ LET a == always_recreate_counters(statics, env, ub) IN
     IF a.fatal # "no" THEN Dies("stop_counting", 0, a.st, a.fatal)
     ELSE LET r == stop_counting(Obj, a.val) IN
          /\ Becomes(r.o)
          /\ statics' = a.st
          /\ Observe("stop_counting", 0)
          /\ ret' = -1
          /\ reads' = {}
          /\ ioctls' = r.ioctls
          /\ stopTotal' = ticks_total(Obj)
          /\ resumed' = -1
          /\ prevOp' = "none"
          /\ UNCHANGED <<env, constructed, aborted, resetMode, signals,
                         firstChoice>>

Stop ==
  /\ Live /\ constructed
  /\ UNCHANGED <<dvvars, rpvars>>
  /\ Becomes(stop(Obj))
  /\ Observe("stop", 0)
  /\ ret' = -1
  /\ reads' = {}
  /\ ioctls' = {}
  /\ stopTotal' = -1
  /\ resumed' = -1
  /\ prevOp' = "none"
  /\ UNCHANGED <<env, statics, constructed, aborted, resetMode, signals,
                 firstChoice>>

SetTid(t) ==
  /\ Live /\ constructed
  /\ UNCHANGED <<dvvars, rpvars>>
  /\ Becomes(set_tid(Obj, t))
  /\ Observe("set_tid", t)
  /\ ret' = -1
  /\ reads' = {}
  /\ ioctls' = {}
  /\ stopTotal' = -1
  /\ resumed' = -1
  /\ prevOp' = "none"
  /\ UNCHANGED <<env, statics, constructed, aborted, resetMode, signals,
                 firstChoice>>

ReadTicks ==
  /\ Live /\ constructed
  /\ UNCHANGED <<dvvars, rpvars>>
  /\ LET r == read_ticks(Obj, env) IN
     /\ ret' = r.val
     /\ reads' = r.reads
     /\ aborted' = r.fatal
  /\ Observe("read_ticks", 0)
  /\ stopTotal' = -1
  /\ UNCHANGED <<env, statics, constructed, tid, started, counting, fds,
                 ioctls, resetMode, signals, resumed, prevOp, firstChoice>>

Run(ev) ==
  /\ Live /\ constructed
  /\ UNCHANGED <<dvvars, rpvars>>
  /\ Counting(fds, ev) # {}
  /\ \A sl \in Counting(fds, ev) : fds[sl].value < MaxTicks
  /\ fds' = [sl \in Slots |->
               IF sl \in Counting(fds, ev)
               THEN [fds[sl] EXCEPT !.value = @ + 1] ELSE fds[sl]]
  /\ signals' = IF "fd_ticks_interrupt" \in Counting(fds, ev)
                   /\ Overflows(fds["fd_ticks_interrupt"])
                THEN signals + 1 ELSE signals
  /\ Observe("run", 0)
  /\ ret' = -1
  /\ reads' = {}
  /\ ioctls' = {}
  /\ stopTotal' = -1
  /\ resumed' = -1
  /\ prevOp' = "none"
  /\ UNCHANGED <<env, statics, constructed, tid, started, counting, aborted,
                 resetMode, firstChoice>>

\* the outcomes of the undefined read that the next call can produce: it is
\* reached only by the first run of the IN_TXCP probe, on a kernel that
\* refuses the probe's event
UndefinedNow ==
  IF ~statics.kvm_did_test /\ ~env.under_rr
     /\ (~env.perf_enabled \/ ~env.kernel_in_txcp)
  THEN Undefined ELSE {"assert"}

Next ==
  \/ \E t \in Tids : New(t)
  \/ \E p \in Periods, ub \in UndefinedNow : Reset(p, ub)
  \/ \E ub \in UndefinedNow : StopCounting(ub)
  \/ Stop
  \/ \E t \in Tids : SetTid(t)
  \/ ReadTicks
  \/ \E ev \in Events : Run(ev)

Spec == Init /\ [][Next]_vars

\* the same operations on the hosts of PmuEnvs
SpecPmu == InitPmu /\ [][Next]_vars

\* divert() up to its first dbg_get_request(), lines 102-110
Divert(task) ==
  /\ dabort = "no" /\ dpc = "idle"
  /\ IF session = "null" /\ diversion_refcount = 0
     THEN /\ session' = "diversion"
          /\ diversion_refcount' = 1
          /\ dt' = find_task(task)
          /\ dpc' = "serving"
          /\ dabort' = "no"
     ELSE /\ dabort' = "assert(!session && diversion_refcount == 0)"
          /\ UNCHANGED <<session, diversion_refcount, dt, dpc>>
  /\ dreq' = NoRequest
  /\ dlast' = [NoObservation EXCEPT !.op = "divert"]
  /\ wasZero' = FALSE
  /\ UNCHANGED <<pcvars, rpvars>>

\* divert() from one dbg_get_request() to the next, or to its return:
\* the request is served; a resume request in a live diversion runs one
\* diversion_step(), whose result is result
DebuggerRequest(req, result) ==
  /\ dabort = "no" /\ dpc = "serving"
  /\ req.type = "DREQ_READ_SIGINFO" => diversion_refcount < MaxRefs
  /\ LET p == process_debugger_request(diversion_refcount, dt, req)
         stepped == p.fatal = "no" /\ p.outcome = "return_t"
         s == IF stepped THEN after_step(p.refcount, result)
              ELSE [refcount |-> p.refcount, notes |-> <<>>, leave |-> FALSE]
         leaving == p.fatal = "no" /\ (p.outcome = "return_null" \/ s.leave)
         e == IF leaving THEN end_divert(s.refcount)
              ELSE [session |-> session, killed |-> FALSE, fatal |-> p.fatal]
     IN  /\ dreq' = req
         /\ diversion_refcount' = s.refcount
         /\ dt' = p.t
         /\ session' = e.session
         /\ dabort' = e.fatal
         /\ dpc' = IF leaving /\ e.fatal = "no" THEN "idle" ELSE "serving"
         /\ wasZero' = (wasZero \/ s.refcount = 0)
         /\ dlast' =
              [op |-> "request",
               steps |-> IF stepped THEN 1 ELSE 0,
               command |-> IF stepped THEN run_command(req, p.t) ELSE "none",
               notes |-> s.notes,
               dispatched |-> p.fatal = "no" /\ p.outcome = "dispatch",
               ended |-> leaving,
               why |-> IF ~leaving THEN "none"
                       ELSE IF s.leave THEN "exited"
                       ELSE IF dbg_is_resume_request(req) THEN "resume_dying"
                       ELSE IF req.type = "DREQ_RESTART" THEN "restart"
                       ELSE "break_dying",
               killed |-> e.killed,
               result |-> IF stepped THEN result ELSE NoResult]
  /\ ~(dbg_is_resume_request(req) /\ diversion_refcount > 0) =>
       result = CHOOSE r \in StepResults : r.status = "DIVERSION_EXITED"
  /\ UNCHANGED <<pcvars, rpvars>>

NextDiverter ==
  \/ \E task \in Tids : Divert(task)
  \/ \E req \in DRequests, result \in StepResults : DebuggerRequest(req, result)

\* the host the diversion runs on
DivertHost ==
  [under_rr |-> FALSE, perf_enabled |-> TRUE, kernel_in_txcp |-> TRUE,
   txcp_probe_count |-> NUM_BRANCHES, ioc_poll_pending |-> TRUE,
   extra_perf_counters |-> FALSE, force_things |-> FALSE,
   cpuid_eax |-> 198339, forced_uarch |-> <<>>]

InitDivert == InitFrom({DivertHost})

\* the debugger drives diversions, one after the other
SpecDivert == InitDivert /\ [][NextDiverter]_vars

\* replay(), lines 613-624: the debugger is awaited unless autopilot is set
Replay(autopilot) ==
  /\ rfatal = "no" /\ rpc = "off"
  /\ dbg' = ~autopilot
  /\ threads' = Tids
  /\ rpc' = "frame"
  /\ rlast' = [NoReplayObservation EXCEPT
                 !.op = "replay",
                 !.ops = IF autopilot THEN <<>>
                         ELSE <<"dbg_await_client_connection">>]
  /\ UNCHANGED <<validate, ctx_tid, rreq, reqAssigned, headValidate,
                 trace_frame, cur_step, child_sig, breakpoint_table,
                 child_memory, rfatal>>
  /\ UNCHANGED <<pcvars, dvvars>>

\* replay_one_trace_frame(), lines 520-566, for frame fr of task t, having
\* done before; obs is what has been observed of this step so far
Interpreted(fr, t, obs) ==
  LET i == interpret_frame(validate, fr) IN
  IF child_sig # "none" /\ fr.stop_reason # "signal"
  THEN /\ rfatal' = "assert(ctx->trace.stop_reason == -ctx->child_sig)"
       /\ rlast' = obs
       /\ UNCHANGED <<validate, threads, rpc, cur_step, child_sig>>
  ELSE /\ rfatal' = "no"
       /\ validate' = i.validate
       /\ child_sig' = "none"
       /\ cur_step' = i.step
       /\ threads' = IF i.exited THEN threads \ {t} ELSE threads
       /\ rpc' = IF i.exited THEN "frame" ELSE "step"
       /\ rlast' = [obs EXCEPT !.ops = @ \o i.ops]

\* replay_one_trace_frame() from its entry to its first wait or request:
\* with validate set the requests of the debugger are served first
BeginFrame(t, fr, garbage) ==
  /\ rfatal = "no" /\ rpc = "frame" /\ t \in threads
  /\ ctx_tid' = t
  /\ trace_frame' = fr
  /\ headValidate' = validate
  /\ LET obs == [NoReplayObservation EXCEPT !.op = "frame"] IN
     IF validate /\ dbg
     THEN /\ rpc' = "gate"
          /\ rreq' = garbage
          /\ reqAssigned' = FALSE
          /\ rlast' = obs
          /\ UNCHANGED <<validate, threads, cur_step, child_sig, rfatal>>
     ELSE /\ rreq' = IF validate THEN continue_all_tasks ELSE garbage
          /\ reqAssigned' = validate
          /\ Interpreted(fr, t, obs)
  /\ validate => garbage = continue_all_tasks
  /\ UNCHANGED <<dbg, breakpoint_table, child_memory>>
  /\ UNCHANGED <<pcvars, dvvars>>

\* process_debugger_requests(), lines 234-330: one request is read and
\* served; a resume request returns to the frame (or, in emergency_debug,
\* to its fatal())
ServeRequest(request) ==
  /\ rfatal = "no" /\ rpc \in {"gate", "trap", "emergency"}
  /\ LET obs == [NoReplayObservation EXCEPT
                   !.op = IF rpc = "emergency" THEN "emergency" ELSE "serve",
                   !.requests = 1]
         stay(o) == /\ rlast' = o
                    /\ UNCHANGED <<validate, threads, rpc, rreq, reqAssigned,
                                   cur_step, child_sig, rfatal>>
     IN
     IF dbg_is_resume_request(request)
     THEN /\ UNCHANGED <<breakpoint_table, child_memory>>
          /\ CASE rpc = "gate" ->
                    /\ rreq' = request
                    /\ reqAssigned' = TRUE
                    /\ Interpreted(trace_frame, ctx_tid, obs)
               [] rpc = "trap" ->
                    /\ rreq' = request
                    /\ reqAssigned' = TRUE
                    /\ rpc' = "step"
                    /\ rlast' = obs
                    /\ UNCHANGED <<validate, threads, cur_step, child_sig,
                                   rfatal>>
               [] rpc = "emergency" ->
                    /\ rfatal' = "Can't resume execution from invalid state"
                    /\ rlast' = obs
                    /\ UNCHANGED <<validate, threads, rpc, rreq, reqAssigned,
                                   cur_step, child_sig>>
     ELSE CASE request.type \in QueryTypes \cup HwBreakTypes ->
                 /\ stay(obs)
                 /\ UNCHANGED <<breakpoint_table, child_memory>>
            [] request.type = "DREQ_INTERRUPT" ->
                 /\ stay([obs EXCEPT !.stops =
                            <<[thread |-> get_threadid(ctx_tid), sig |-> 0,
                               to |-> IF rpc = "emergency" THEN "emergency"
                                      ELSE "dbg"]>>])
                 /\ UNCHANGED <<breakpoint_table, child_memory>>
            [] request.type = "DREQ_SET_SW_BREAK" ->
                 LET b == set_sw_breakpoint(breakpoint_table, child_memory,
                                            request.addr) IN
                 /\ breakpoint_table' = b.table
                 /\ child_memory' = b.memory
                 /\ rfatal' = b.fatal
                 /\ rlast' = obs
                 /\ UNCHANGED <<validate, threads, rpc, rreq, reqAssigned,
                                cur_step, child_sig>>
            [] request.type = "DREQ_REMOVE_SW_BREAK" ->
                 LET b == remove_sw_breakpoint(breakpoint_table, child_memory,
                                               request.addr) IN
                 /\ breakpoint_table' = b.table
                 /\ child_memory' = b.memory
                 /\ stay(obs)
            [] OTHER ->
                 /\ rfatal' = "Unknown debugger request"
                 /\ rlast' = obs
                 /\ UNCHANGED <<validate, threads, rpc, rreq, reqAssigned,
                                cur_step, child_sig, breakpoint_table,
                                child_memory>>
  /\ UNCHANGED <<dbg, ctx_tid, headValidate, trace_frame>>
  /\ UNCHANGED <<pcvars, dvvars>>

\* the waits a step makes: none for a retired step and for the exit of an
\* emulated syscall
Waits(st) ==
  st.action = "TSTEP_ENTER_SYSCALL"
  \/ (st.action = "TSTEP_EXIT_SYSCALL" /\ ~st.emu)

\* what the child can do: it traps just after the address of a breakpoint
\* only if the trap instruction is there
CanHappen(w) ==
  /\ (~Waits(cur_step)) =>
       (w.sigchld = 0 /\ w.sig = "none" /\ w.before_eip = Elsewhere)
  /\ (~Waits(cur_step) /\ ~validate) => w.regs_match
  /\ w.sig # "none" => w.regs_match
  /\ w.sig # "SIGTRAP" => w.before_eip = Elsewhere
  /\ w.before_eip \in Addrs => child_memory[w.before_eip] = int_3_insn

\* replay_one_trace_frame(), lines 572-605: one try_one_trace_step(); the
\* frame is retired, or the task has trapped and the debugger is told
TryStep(w) ==
  /\ rfatal = "no" /\ rpc = "step" /\ CanHappen(w)
  /\ LET r == try_one_trace_step(cur_step, rreq, ctx_tid, validate, w)
         obs == [NoReplayObservation EXCEPT !.op = "try", !.ops = r.ops,
                                            !.ret = r.ret,
                                            !.before_eip = w.before_eip]
         sig == IF r.child_sig = "kept" THEN child_sig ELSE r.child_sig
         expected == eip_is_breakpoint(breakpoint_table, w.before_eip)
                     \/ stepi_of(rreq, ctx_tid)
     IN  /\ child_sig' = sig
         /\ CASE r.fatal # "no" ->
                   /\ rfatal' = r.fatal
                   /\ rlast' = obs
                   /\ UNCHANGED <<rpc, rreq, reqAssigned>>
              [] r.fatal = "no" /\ r.emergency ->
                   /\ rpc' = "emergency"
                   /\ rlast' = obs
                   /\ UNCHANGED <<rfatal, rreq, reqAssigned>>
              [] r.fatal = "no" /\ ~r.emergency /\ r.ret = 0 ->
                   /\ rpc' = "frame"
                   /\ rlast' = [obs EXCEPT !.ops = @ \o post_frame(trace_frame),
                                           !.retired = TRUE]
                   /\ UNCHANGED <<rfatal, rreq, reqAssigned>>
              [] r.fatal = "no" /\ ~r.emergency /\ r.ret # 0 /\ ~expected ->
                   /\ rfatal' = "assert(eip_is_breakpoint || stepi)"
                   /\ rlast' = obs
                   /\ UNCHANGED <<rpc, rreq, reqAssigned>>
              [] r.fatal = "no" /\ ~r.emergency /\ r.ret # 0 /\ expected ->
                   /\ rlast' = [obs EXCEPT !.stops =
                                  <<trap_notification(dbg, ctx_tid)>>]
                   /\ rpc' = IF dbg THEN "trap" ELSE "step"
                   /\ rreq' = IF dbg THEN rreq ELSE continue_all_tasks
                   /\ reqAssigned' = IF dbg THEN reqAssigned ELSE TRUE
                   /\ rfatal' = "no"
  /\ UNCHANGED <<validate, dbg, threads, ctx_tid, headValidate, trace_frame,
                 cur_step, breakpoint_table, child_memory>>
  /\ UNCHANGED <<pcvars, dvvars>>

\* replay(), lines 626-638: no thread is left
Finish ==
  /\ rfatal = "no" /\ rpc = "frame" /\ threads = {}
  /\ rpc' = "done"
  /\ rlast' = [NoReplayObservation EXCEPT
                 !.op = "finish",
                 !.exits = IF dbg THEN 1 ELSE 0,
                 !.ops = <<"dbg_destroy_context">>]
  /\ UNCHANGED <<validate, dbg, threads, ctx_tid, rreq, reqAssigned,
                 headValidate, trace_frame, cur_step, child_sig,
                 breakpoint_table, child_memory, rfatal>>
  /\ UNCHANGED <<pcvars, dvvars>>

NextReplayer ==
  \/ \E autopilot \in BOOLEAN : Replay(autopilot)
  \/ \E t \in Tids, fr \in TraceFrames, garbage \in GarbageRequests :
       BeginFrame(t, fr, garbage)
  \/ \E request \in RRequests : ServeRequest(request)
  \/ \E w \in WaitOutcomes : TryStep(w)
  \/ Finish

InitReplay == InitFrom({DivertHost})

\* a trace is replayed, with or without a debugger
SpecReplay == InitReplay /\ [][NextReplayer]_vars


(***************************************************************************)
(* Properties.                                                             *)
(***************************************************************************)
\* the probes' verdicts, as the statics hold them
IocBug == statics.ioc_did_test /\ statics.ioc_bug_detected
KvmBug == statics.kvm_did_test /\ statics.kvm_bug_detected
AlwaysRecreate == IocBug \/ KvmBug

Interrupt == fds["fd_ticks_interrupt"]
Measure == fds["fd_ticks_measure"]
InTransaction == fds["fd_ticks_in_transaction"]

Min(a, b) == IF a < b THEN a ELSE b

\* C1 (as stated): in every reachable state, counting implies started.
C1_CountingImpliesStarted == counting => started

\* C1 (amended): counting implies started in every state that reset() or
\* stop_counting() leaves (and before the first of them); stop() and
\* set_tid() clear started and leave counting as it was, so counting without
\* started is met only after one of them, until the next reset() or
\* stop_counting().
C1_CountingImpliesStartedUntilStop ==
  /\ (Live /\ lastOp \in {"none", "new", "reset", "stop_counting"})
       => (counting => started)
  /\ (counting /\ ~started) => lastOp \in {"stop", "set_tid", "read_ticks"}

C1_Witness ==
  /\ lastOp = "stop_counting" /\ resetMode = "recreate"
  /\ ~counting /\ ~started

\* C2: stop() closes every open descriptor exactly once and closes nothing
\* on a stopped counter, no descriptor stays open after it, and read_ticks()
\* on a stopped counter returns 0 and reads no descriptor.
C2_StopClosesEachFdOnce ==
  [][ /\ lastOp' = "stop" =>
           /\ \A sl \in Slots : ~fds'[sl].open
           /\ \A sl \in Slots :
                IF fds[sl].open /\ started
                THEN fds'[sl].closes = fds[sl].closes + 1 /\ fds'[sl].closes = 1
                ELSE fds'[sl] = fds[sl]
           /\ ~started'
      /\ (lastOp' = "read_ticks" /\ ~started) => (ret' = 0 /\ reads' = {})
      /\ ~started' => \A sl \in Slots : ~fds'[sl].open
    ]_vars

C2_Witness ==
  /\ lastOp = "read_ticks" /\ ~started /\ ret = 0 /\ reads = {}
  /\ \A sl \in {"fd_ticks_interrupt", "fd_useless_counter"} :
       ~fds[sl].open /\ fds[sl].closes = 1

\* C3: the measure and the in-transaction counter are never both open; a
\* started counter has exactly one of them open: the in-transaction counter
\* iff the KVM IN_TXCP probe reported the bug, and the same one after every
\* recreation.
C3_OneTicksCounterByProbe ==
  /\ ~(Measure.open /\ InTransaction.open)
  /\ started =>
       /\ statics.kvm_did_test
       /\ InTransaction.open <=> statics.kvm_bug_detected
       /\ Measure.open <=> ~statics.kvm_bug_detected
       /\ firstChoice = IF InTransaction.open THEN "fd_ticks_in_transaction"
                        ELSE "fd_ticks_measure"

C3_Witness ==
  /\ started /\ InTransaction.open /\ ~Measure.open
  /\ lastOp = "reset" /\ resetMode = "recreate" /\ resumed > 0

\* C4: a read_ticks() of a started, counting counter returns at most the
\* interrupt counter's value I: I when the measure counter is closed or its
\* value M exceeds I, and M otherwise.
C4_ReadTicksAtMostInterrupt ==
  (lastOp = "read_ticks" /\ started /\ counting /\ Live) =>
    /\ ret <= Interrupt.value
    /\ Measure.open => ret = Min(Measure.value, Interrupt.value)
    /\ ~Measure.open => ret = Interrupt.value

C4_Witness ==
  /\ lastOp = "read_ticks" /\ started /\ counting /\ Live
  /\ Measure.open /\ Measure.value > Interrupt.value /\ Interrupt.value > 0
  /\ ret = Interrupt.value

\* C5 (as stated): with the IOC_PERIOD bug, every reset(p) recreates the
\* counters and none re-programs the period by PERF_EVENT_IOC_PERIOD.
C5_EveryResetRecreates ==
  (Live /\ IocBug /\ lastOp = "reset") =>
    /\ resetMode = "recreate"
    /\ <<"fd_ticks_interrupt", "PERIOD">> \notin ioctls

\* C5 (amended): with the IOC_PERIOD bug, stop_counting() leaves the counter
\* stopped, and every reset(p) of a counter that is not started opens fresh
\* descriptors with sample period p and issues no ioctl; a reset(p) of a
\* counter that is still started re-programs it by PERF_EVENT_IOC_PERIOD.
C5_ResetRecreatesAfterStopCounting ==
  [][ IocBug' =>
        /\ (lastOp' = "stop_counting" /\ Live') => ~started'
        /\ (lastOp' = "reset" /\ Live') =>
             IF started
             THEN /\ resetMode' = "ioctl"
                  /\ <<"fd_ticks_interrupt", "PERIOD">> \in ioctls'
             ELSE /\ resetMode' = "recreate"
                  /\ ioctls' = {}
                  /\ Interrupt'.open /\ Interrupt'.period = Period(lastArg')
                  /\ \A sl \in Slots :
                       fds'[sl].open =>
                         /\ ~fds[sl].open
                         /\ fds'[sl].value = 0 /\ fds'[sl].closes = 0
    ]_vars

C5_Witness ==
  /\ Live /\ IocBug /\ lastOp = "reset" /\ prevOp = "stop_counting"
  /\ resetMode = "recreate" /\ resumed > 0 /\ lastArg = MaxPeriod

\* C6 (as stated): the first read_ticks() after stop_counting(); reset(p),
\* with no branch executed in between, returns the total read before the
\* stop when always_recreate_counters is false, and 0 when it is true.
C6_ResumePreservesTotal ==
  (lastOp = "read_ticks" /\ resumed >= 0) =>
    ret = IF AlwaysRecreate THEN 0 ELSE resumed

\* C6 (amended): the first read_ticks() after stop_counting(); reset(p), with
\* no branch executed in between, returns 0, whether always_recreate_counters
\* is true or false.
C6_ResumeStartsFromZero ==
  (lastOp = "read_ticks" /\ resumed >= 0) => ret = 0

C6_Witness ==
  /\ lastOp = "read_ticks" /\ resumed > 0 /\ ~AlwaysRecreate
  /\ resetMode = "ioctl" /\ started /\ counting /\ ret = 0

\* C7: stop_counting() clears counting; when always_recreate_counters is
\* false it leaves started and the open descriptors as they were and only
\* disables the interrupt, measure and in-transaction counters; when it is
\* true it leaves the counter as stop() does: not started, every descriptor
\* closed.
C7_StopCountingFrame ==
  [][ (lastOp' = "stop_counting" /\ Live') =>
        /\ ~counting'
        /\ tid' = tid
        /\ IF AlwaysRecreate'
           THEN /\ ~started'
                /\ \A sl \in Slots : ~fds'[sl].open
                /\ fds' = stop(Obj).fds
           ELSE /\ started' = started
                /\ \A sl \in Slots \ TicksFds : fds'[sl] = fds[sl]
                /\ \A sl \in TicksFds :
                     fds'[sl] = IF fds[sl].open
                                THEN [fds[sl] EXCEPT !.enabled = FALSE]
                                ELSE fds[sl]
    ]_vars

C7_Witness ==
  /\ lastOp = "stop_counting" /\ Live /\ ~AlwaysRecreate /\ started
  /\ Interrupt.open /\ ~Interrupt.enabled /\ Interrupt.value > 0
  /\ Measure.open /\ ~Measure.enabled

C9_HleAssertion ==
  (lastOp = "read_ticks" /\ started /\ counting /\ InTransaction.open) =>
    IF InTransaction.value > 0 /\ ~env.force_things
    THEN aborted = "ASSERT" /\ ret = -1
    ELSE Live /\ ret = Interrupt.value

C9_Witness ==
  /\ lastOp = "read_ticks" /\ aborted = "ASSERT" /\ ret = -1
  /\ InTransaction.open /\ InTransaction.value > 0 /\ ~env.force_things

\* what is observed of a descriptor: everything but the count of closes of
\* earlier descriptors
Shape(f) == [f EXCEPT !.closes = 0]

SameCounters(a, b) ==
  /\ a.tid = b.tid /\ a.started = b.started /\ a.counting = b.counting
  /\ \A sl \in Slots : Shape(a.fds[sl]) = Shape(b.fds[sl])

\* C10: reset(p) right after stop() leaves what reset(p) leaves on a newly
\* constructed counter of the same tid: the same flags, the same open
\* descriptors with the same periods, the same read_ticks() value (and it
\* ends the process iff that one does).
C10_StopResetIsFresh ==
  [][ (lastOp = "stop" /\ lastOp' = "reset") =>
        \E ub \in UndefinedNow :
          LET b == reset(NewCounters(tid), statics, env, lastArg', ub) IN
          /\ aborted' = b.fatal
          /\ b.fatal = "no" =>
               /\ statics' = b.st
               /\ SameCounters(Obj', b.o)
               /\ read_ticks(Obj', env) = read_ticks(b.o, env)
    ]_vars

C10_Witness ==
  /\ lastOp = "reset" /\ prevOp = "stop" /\ Live /\ resetMode = "recreate"
  /\ started /\ counting /\ fds["fd_useless_counter"].open

\* the verdict a probe has reported, in statics st
Reported(st) ==
  [ioc |-> st.ioc_did_test /\ st.ioc_bug_detected,
   kvm |-> st.kvm_did_test /\ st.kvm_bug_detected]

\* C11: always_recreate_counters() answers true exactly when one of the two
\* probes has reported its bug; once a probe has been queried, no step
\* changes its verdict or opens its probe counter again, so each probe opens
\* at most one counter; under an outer rr no probe counter is ever opened and
\* neither probe reports its bug.
C11_ProbeVerdicts ==
  [][ /\ \A ub \in UndefinedNow :
           LET a == always_recreate_counters(statics, env, ub) IN
           a.fatal = "no" =>
             /\ a.val <=> (Reported(a.st).ioc \/ Reported(a.st).kvm)
             /\ (statics.ioc_did_test /\ statics.kvm_did_test) => a.st = statics
      /\ statics.ioc_did_test =>
           /\ statics'.ioc_did_test
           /\ statics'.ioc_bug_detected = statics.ioc_bug_detected
           /\ statics'.ioc_probe_opens = statics.ioc_probe_opens
      /\ statics.kvm_did_test =>
           /\ statics'.kvm_did_test
           /\ statics'.kvm_bug_detected = statics.kvm_bug_detected
           /\ statics'.kvm_probe_opens = statics.kvm_probe_opens
      /\ statics'.ioc_probe_opens <= 1 /\ statics'.kvm_probe_opens <= 1
      /\ (lastOp' = "stop_counting" /\ Live' /\ started) =>
           (~started' <=> (Reported(statics').ioc \/ Reported(statics').kvm))
      /\ env.under_rr =>
           /\ statics'.ioc_probe_opens = 0 /\ statics'.kvm_probe_opens = 0
           /\ ~Reported(statics').ioc /\ ~Reported(statics').kvm
    ]_vars

C11_Witness ==
  /\ Live /\ lastOp = "stop_counting" /\ resetMode = "recreate"
  /\ prevOp = "none" /\ signals > 0
  /\ statics.ioc_did_test /\ ~statics.ioc_bug_detected
  /\ statics.kvm_did_test /\ statics.kvm_bug_detected
  /\ statics.ioc_probe_opens = 1 /\ statics.kvm_probe_opens = 1

\* the table entries whose name contains the forced_uarch, case ignored
Named == {i \in DOMAIN pmu_configs :
            find(lowercase(pmu_configs[i].name), lowercase(env.forced_uarch))}

Detected == cpu_uarch(cpu_type_of(env.cpuid_eax))

\* the entry the registry is to select: the first one named, or the
\* detected one; 0 when there is none
Selected ==
  IF env.forced_uarch # <<>>
  THEN IF Named = {} THEN 0 ELSE CHOOSE i \in Named : \A j \in Named : i <= j
  ELSE IF Detected = "UnknownCpu" THEN 0 ELSE lookup(Detected)

NoCounterOpened ==
  /\ ~constructed /\ \A sl \in Slots : ~fds[sl].open
  /\ statics.ioc_probe_opens = 0 /\ statics.kvm_probe_opens = 0

\* C12 (as stated): when the constructor has run init_attributes, the
\* process has aborted whenever the CPUID model bits match no known entry.
C12_UnknownCpuAborts ==
  (lastOp = "new" /\ Detected = "UnknownCpu") => ~Live

\* C12 (amended): when the constructor has run init_attributes, the process
\* has aborted, with no counter opened, exactly when forced_uarch is empty and the CPUID
\* model bits are unknown, or forced_uarch is non-empty and names no entry,
\* or the selected entry is unsupported; otherwise the selected entry is the
\* first one whose name contains forced_uarch, case ignored, or the detected
\* one when forced_uarch is empty.
C12_FatalConfiguration ==
  /\ statics.attributes_initialized =>
       IF statics.pmu = 0
       THEN /\ aborted \in {"cpu_unknown", "forced_uarch_unknown"}
            /\ NoCounterOpened
       ELSE IF pmu_configs[statics.pmu].supported
            THEN aborted # "uarch_unsupported" /\ constructed
            ELSE aborted = "uarch_unsupported" /\ NoCounterOpened
  /\ lastOp = "new" =>
       /\ statics.attributes_initialized
       /\ statics.pmu = Selected
       /\ Selected = 0 =>
            aborted = IF env.forced_uarch = <<>> THEN "cpu_unknown"
                      ELSE "forced_uarch_unknown"

\* a host whose CPU is unknown runs with a forced microarchitecture named
\* in capitals, and selects the first entry of that name
C12_Witness ==
  /\ Live /\ started /\ Detected = "UnknownCpu"
  /\ env.forced_uarch = <<"B", "R", "I", "D", "G", "E">>
  /\ pmu_configs[statics.pmu].uarch = "IntelIvyBridge"

\* C13: divert() starts with no session and a refcount of 0 and sets the
\* refcount to 1; whenever it returns, the refcount is 0, the tasks of the
\* diversion have been killed and the session handle is null; it returns on
\* a resume or breakpoint request in a dying diversion and on the exit of
\* the diversion, and on a restart request if the refcount is 0 then; so
\* between diversions the precondition of divert() holds.
C13_DivertLeavesNoDiversion ==
  [][ /\ (dpc = "idle" /\ dlast'.op = "divert") =>
           /\ session = "null" /\ diversion_refcount = 0
           /\ session' = "diversion" /\ diversion_refcount' = 1
           /\ dpc' = "serving" /\ dabort' = "no"
      /\ (dpc = "serving" /\ dpc' = "idle") =>
           /\ diversion_refcount' = 0 /\ session' = "null"
           /\ dlast'.killed /\ dlast'.ended /\ dabort' = "no"
      /\ (dlast'.op = "request" /\ dlast'.ended) =>
           CASE dlast'.why \in {"resume_dying", "break_dying", "exited"} ->
                  dpc' = "idle"
             [] dlast'.why = "restart" ->
                  (dpc' = "idle" <=> diversion_refcount = 0)
      /\ dpc' = "idle" => (session' = "null" /\ diversion_refcount' = 0)
      /\ dpc' = "serving" => session' = "diversion"
    ]_vars

C13_Witness ==
  /\ dpc = "idle" /\ dabort = "no" /\ dlast.why = "restart" /\ dlast.killed
  /\ session = "null" /\ diversion_refcount = 0

\* C14 (as stated): a DREQ_RESTART request read during a diversion, at any
\* refcount, is followed by no diversion_step, kills the tasks, clears the
\* handle and lets divert() return without a failed assertion.
C14_RestartEndsCleanly ==
  (dlast.op = "request" /\ dreq.type = "DREQ_RESTART") =>
    /\ dlast.steps = 0
    /\ dabort = "no" /\ dpc = "idle"
    /\ dlast.killed /\ session = "null"

\* C15: the refcount is never negative; DREQ_READ_SIGINFO adds one to it,
\* DREQ_WRITE_SIGINFO takes one off and is served only at a refcount above
\* 0 (at 0 its assertion fails), and no other request changes it in the
\* request service; outside it only divert() writes it: 1 at its start and
\* 0 when the diversion has exited.
C15_RefcountNonNegative ==
  [][ /\ diversion_refcount' >= 0
      /\ dlast'.op = "request" =>
           LET p == process_debugger_request(diversion_refcount, dt, dreq') IN
           /\ CASE dreq'.type = "DREQ_READ_SIGINFO" ->
                      p.fatal = "no" /\ p.refcount = diversion_refcount + 1
                 [] dreq'.type = "DREQ_WRITE_SIGINFO" ->
                      IF diversion_refcount > 0
                      THEN p.fatal = "no"
                           /\ p.refcount = diversion_refcount - 1
                      ELSE p.fatal # "no" /\ p.refcount = diversion_refcount
                 [] OTHER ->
                      p.fatal = "no" /\ p.refcount = diversion_refcount
           /\ dabort' = "no" => p.fatal = "no"
           /\ diversion_refcount' =
                IF dlast'.result.status = "DIVERSION_EXITED" THEN 0
                ELSE p.refcount
    ]_vars

C15_Witness ==
  /\ dlast.op = "request" /\ dreq.type = "DREQ_WRITE_SIGINFO"
  /\ dabort = "no" /\ dpc = "serving" /\ diversion_refcount = MaxRefs - 1

\* C16: a resume request read at a refcount above 0 runs exactly one
\* diversion_step before the next request is read, with RUN_SINGLESTEP iff
\* it is a DREQ_STEP whose target is the current task's thread id and
\* RUN_CONTINUE otherwise; a resume request read at refcount 0 runs none
\* and ends the diversion; no other request runs a diversion_step.
C16_ResumeDrivesOneStep ==
  [][ dlast'.op = "request" =>
        IF dbg_is_resume_request(dreq')
        THEN IF diversion_refcount > 0
             THEN /\ dlast'.steps = 1
                  /\ dlast'.command =
                       IF dreq'.type = "DREQ_STEP" /\ dreq'.target = dt
                       THEN "RUN_SINGLESTEP" ELSE "RUN_CONTINUE"
             ELSE /\ dlast'.steps = 0 /\ dlast'.command = "none"
                  /\ dlast'.ended /\ dpc' = "idle"
        ELSE dlast'.steps = 0
    ]_vars

C16_Witness ==
  /\ dlast.op = "request" /\ dreq.type = "DREQ_STEP" /\ dreq.target # dt
  /\ dreq.target \in Tids
  /\ dlast.steps = 1 /\ dlast.command = "RUN_CONTINUE" /\ dpc = "serving"

\* C17 (as stated): once the refcount has been 0 in a diversion, the next
\* resume request ends the diversion and runs no diversion_step, whatever
\* requests came in between.
C17_DyingIsFinal ==
  [][ (wasZero /\ dlast'.op = "request" /\ dbg_is_resume_request(dreq')) =>
        (dlast'.ended /\ dlast'.steps = 0)
    ]_vars

\* C17 (amended): a resume request ends the diversion without a
\* diversion_step exactly when the refcount is 0 as it is read; a refcount
\* of 0 becomes positive again only by a DREQ_READ_SIGINFO, and the
\* diversion then lives on: the next resume request runs a diversion_step.
C17_DyingUntilRead ==
  [][ /\ (dlast'.op = "request" /\ dbg_is_resume_request(dreq')) =>
           ((dlast'.ended /\ dlast'.steps = 0 /\ dlast'.why = "resume_dying")
              <=> diversion_refcount = 0)
      /\ (dlast'.op = "request" /\ diversion_refcount = 0
            /\ diversion_refcount' > 0) =>
           dreq'.type = "DREQ_READ_SIGINFO"
      /\ (dlast'.op = "request" /\ dlast'.ended) => dlast'.steps <= 1
      /\ dpc = "idle" => dlast'.steps = 0
    ]_vars

C17_Witness ==
  /\ wasZero /\ diversion_refcount > 0 /\ dpc = "serving"
  /\ dlast.op = "request" /\ dbg_is_resume_request(dreq) /\ dlast.steps = 1

\* C18: a breakpoint or watchpoint request read at refcount 0 ends the
\* diversion, is not dispatched to the diversion session and is the request
\* divert() hands back; read at a refcount above 0 it is dispatched and the
\* diversion goes on.
C18_BreakRequestWhileDying ==
  [][ (dlast'.op = "request" /\ dreq'.type \in BreakTypes) =>
        IF diversion_refcount = 0
        THEN /\ dlast'.ended /\ dlast'.why = "break_dying"
             /\ ~dlast'.dispatched /\ dlast'.steps = 0
             /\ dpc' = "idle" /\ session' = "null"
        ELSE /\ dlast'.dispatched /\ ~dlast'.ended /\ dlast'.steps = 0
             /\ dpc' = "serving" /\ session' = "diversion"
             /\ diversion_refcount' = diversion_refcount
    ]_vars

C18_Witness ==
  /\ dlast.op = "request" /\ dreq.type = "DREQ_REMOVE_SW_BREAK"
  /\ dlast.why = "break_dying" /\ ~dlast.dispatched /\ dpc = "idle"

ExitNote == [kind |-> "exit_code", thread |-> 0, sig |-> 0, watch_addr |-> 0]

\* C19: after a diversion_step, DIVERSION_EXITED sends the exit code 0 once
\* and ends the diversion; DIVERSION_CONTINUE with a break sends one stop
\* notification for the task that stopped - the signal of a signal break,
\* SIGTRAP otherwise, with a watch address only for a watchpoint break -
\* and the diversion goes on; DIVERSION_CONTINUE without a break sends
\* nothing; a request that runs no diversion_step sends neither.
C19_StepNotifications ==
  LET r == dlast.result IN
  dlast.op = "request" =>
    CASE r.status = "none" -> dlast.steps = 0 /\ dlast.notes = <<>>
      [] r.status = "DIVERSION_EXITED" ->
           /\ dlast.steps = 1 /\ dlast.notes = <<ExitNote>>
           /\ dlast.ended /\ dpc = "idle" /\ diversion_refcount = 0
      [] r.status = "DIVERSION_CONTINUE" ->
           /\ dlast.steps = 1 /\ ~dlast.ended /\ dpc = "serving"
           /\ IF r.reason = "BREAK_NONE" THEN dlast.notes = <<>>
              ELSE /\ Len(dlast.notes) = 1
                   /\ dlast.notes[1].kind = "stop"
                   /\ dlast.notes[1].thread = r.task
                   /\ dlast.notes[1].sig =
                        IF r.reason = "BREAK_SIGNAL" THEN r.signal ELSE SIGTRAP
                   /\ dlast.notes[1].watch_addr =
                        IF r.reason = "BREAK_WATCHPOINT" THEN r.watch_address
                        ELSE 0

C19_Witness ==
  /\ dlast.op = "request" /\ dlast.result.reason = "BREAK_SIGNAL"
  /\ Len(dlast.notes) = 1 /\ dlast.notes[1].sig = SIGSEGV
  /\ dlast.notes[1].watch_addr = 0 /\ dpc = "serving"

\* the debugger of replay() has been read from or notified in the last step
DebuggerConsulted ==
  \/ rlast.op = "serve"
  \/ \E k \in DOMAIN rlast.stops : rlast.stops[k].to = "dbg"

\* C20 (as stated): no request is read from the debugger and no stop
\* notification is sent to it in a frame that began with validate false,
\* the frame of the execve exit included; and validate, once true, stays
\* true.
C20_NoDebuggerBeforeExecve ==
  [][ /\ DebuggerConsulted' => headValidate'
      /\ validate => validate'
    ]_vars

\* C21 (as stated): whenever breakpoint_table holds no entry for an address,
\* the child's byte there is the one it held before the first breakpoint
\* was set there.
C21_RemovedRestoresByte ==
  \A a \in Addrs :
    find_breakpoint(breakpoint_table, a) = 0 => child_memory[a] = OriginalByte

\* C22 (as stated): the occupied entries of breakpoint_table have pairwise
\* distinct addresses.
C22_UniqueAddresses ==
  \A i, j \in BreakpointSlots :
    (i # j /\ breakpoint_table[i].addr # 0) =>
      breakpoint_table[i].addr # breakpoint_table[j].addr

\* the trap the last step stopped at is one the loop understands: the
\* address before EIP is in breakpoint_table, or the request last read from
\* the debugger is a step of this thread
ExpectedTrap ==
  \/ eip_is_breakpoint(breakpoint_table, rlast'.before_eip)
  \/ (reqAssigned /\ stepi_of(rreq, ctx_tid))

\* C23: a try_one_trace_step() that returns non-zero at an expected trap sends
\* one stop notification with signal 0x05 to the debugger, whose requests are
\* then served until a resume request, and only then is the same step tried
\* again; a frame is retired only by a try_one_trace_step() that returns 0.
C23_TrapLoop ==
  [][ /\ (rlast'.op = "try" /\ rlast'.ret # 0 /\ ExpectedTrap) =>
           /\ rlast'.stops = <<[thread |-> get_threadid(ctx_tid), sig |-> 5,
                                to |-> "dbg"]>>
           /\ rpc' = "trap" /\ rfatal' = "no"
      /\ rpc = "trap" =>
           /\ rlast'.op = "serve"
           /\ rpc' \in {"trap", "step"}
           /\ rpc' = "step" =>
                (rfatal' = "no" /\ dbg_is_resume_request(rreq') /\ reqAssigned')
      /\ (rpc \in {"step", "trap"} /\ rpc' \in {"step", "trap"}) =>
           (cur_step' = cur_step /\ ctx_tid' = ctx_tid)
      /\ rlast'.retired =>
           (rlast'.op = "try" /\ rlast'.ret = 0 /\ rpc = "step"
            /\ rpc' = "frame")
    ]_vars

\* a breakpoint trap has been reported and the debugger has resumed the task
C23_Witness ==
  /\ rpc = "step" /\ rlast.op = "serve" /\ rfatal = "no"
  /\ headValidate /\ rreq.type = "DREQ_CONTINUE"
  /\ child_sig = "SIGTRAP"
  /\ \E a \in Addrs : breakpoint_table[1].addr = a

\* the ptrace requests that advance the child
PtraceRequests ==
  {"PTRACE_SYSCALL", "PTRACE_SYSEMU", "PTRACE_SINGLESTEP",
   "PTRACE_SYSEMU_SINGLESTEP"}

\* C24: in an advance to a syscall boundary every ptrace request is the one
\* of the step's emu and of stepi and is followed by a wait (a SIGCHLD makes
\* the advance again); no pending signal returns 0, a SIGTRAP returns
\* non-zero, any other signal enters emergency debug, from which the replay
\* never continues: its requests are served and a resume request is fatal.
C24_SignalDiscipline ==
  [][ /\ (rlast'.op = "try" /\ Waits(cur_step)) =>
           /\ \A k \in DOMAIN rlast'.ops :
                rlast'.ops[k] \in PtraceRequests =>
                  /\ rlast'.ops[k] =
                       ptrace_request(cur_step.emu, stepi_of(rreq, ctx_tid))
                  /\ k < Len(rlast'.ops) /\ rlast'.ops[k + 1] = "waitpid"
           /\ rlast'.ops[1] \in PtraceRequests
           /\ child_sig' = "none" => (rlast'.ret = 0 /\ rpc' # "emergency")
           /\ child_sig' = "SIGTRAP" => (rlast'.ret # 0 /\ ~rlast'.retired)
           /\ child_sig' = "other" =>
                (rpc' = "emergency" /\ ~rlast'.retired /\ rlast'.stops = <<>>)
           /\ (rpc' = "emergency") = (child_sig' = "other")
      /\ rpc = "emergency" =>
           /\ rpc' = "emergency" /\ rlast'.op = "emergency"
           /\ UNCHANGED <<cur_step, threads, trace_frame, validate>>
    ]_vars

\* a SIGCHLD was swallowed, the advance made again and the boundary reached
C24_Witness ==
  /\ rlast.op = "try" /\ rlast.retired /\ rlast.ret = 0
  /\ Len(rlast.ops) >= 5
  /\ rlast.ops[1] = rlast.ops[3] /\ rlast.ops[1] \in PtraceRequests
  /\ rlast.ops[5] = "rep_child_buffer0"

\* whether op is among the calls of the sequence ops
Called(ops, op) == \E k \in DOMAIN ops : ops[k] = op

\* C25: a retired frame ends with reset_hpc(ctx, 0) and debug_memory(), the
\* reset being left out for a USR_FLUSH frame; a USR_EXIT frame deregisters
\* its task and returns, with no trace step, no reset and no memory check.
C25_PostFrame ==
  [][ /\ rlast'.retired =>
           LET ops == rlast'.ops
               n == Len(ops)
           IN  /\ n >= 1 /\ ops[n] = "debug_memory"
               /\ Called(ops, "reset_hpc(0)") =
                    (trace_frame.stop_reason # "USR_FLUSH")
               /\ Called(ops, "reset_hpc(0)") =>
                    (n >= 2 /\ ops[n - 1] = "reset_hpc(0)")
               /\ trace_frame.stop_reason # "USR_EXIT"
      /\ Called(rlast'.ops, "rep_sched_deregister_thread") =>
           /\ trace_frame'.stop_reason = "USR_EXIT"
           /\ ~rlast'.retired
           /\ ~Called(rlast'.ops, "reset_hpc(0)")
           /\ ~Called(rlast'.ops, "debug_memory")
           /\ \A k \in DOMAIN rlast'.ops : rlast'.ops[k] \notin PtraceRequests
           /\ ctx_tid' \notin threads' /\ rpc' = "frame"
           /\ cur_step'.action = "none"
      /\ (rpc' = "step" /\ rpc # "trap" /\ rpc # "step") =>
           trace_frame'.stop_reason # "USR_EXIT"
    ]_vars

\* a USR_FLUSH frame has been retired
C25_Witness ==
  /\ rlast.op = "try" /\ rlast.retired
  /\ trace_frame.stop_reason = "USR_FLUSH"
  /\ rlast.ops = <<"debug_memory">>

\* C26 (as stated): with autopilot set replay() awaits no connection, reads no
\* request and passes no stop or exit notification to its dbg, and it ends
\* when no thread is left; without autopilot the exit code 0 is notified
\* once, when no thread is left.  (The server emergency_debug() opens is not
\* the dbg of replay().)
C26_AutopilotNoDebugger ==
  [][ /\ (rpc = "off" /\ ~dbg') =>
           ~Called(rlast'.ops, "dbg_await_client_connection")
      /\ (rpc # "off" /\ ~dbg) =>
           /\ rlast'.op # "serve"
           /\ \A k \in DOMAIN rlast'.stops : rlast'.stops[k].to = "emergency"
           /\ rlast'.exits = 0
      /\ rpc' = "done" => (threads = {} /\ rlast'.exits = IF dbg THEN 1 ELSE 0)
      /\ rlast'.exits # 0 => rpc' = "done"
    ]_vars

\* C27 (as stated): stop_counting() leaves an open useless counter open.
C27_UselessSurvivesStopCounting ==
  [][ (lastOp' = "stop_counting" /\ Live' /\ fds.fd_useless_counter.open) =>
        fds'.fd_useless_counter.open
    ]_vars

\* C28 (as stated): the counter the IOC_PERIOD probe opens is described by a
\* ticks_attr that init_attributes() has filled in.
C28_ProbeUsesTicksAttr ==
  statics.ioc_probe_opens > 0 => statics.ioc_probe_attr = "rcb"

\* the calls of ops that follow the arrival at the syscall boundary
AfterBoundary(ops) ==
  IF Called(ops, "rep_child_buffer0")
  THEN SubSeq(ops, (CHOOSE k \in DOMAIN ops : ops[k] = "rep_child_buffer0") + 1,
              Len(ops))
  ELSE ops

\* the calls of ops up to the arrival at the syscall boundary
UpToBoundary(ops) ==
  IF Called(ops, "rep_child_buffer0")
  THEN SubSeq(ops, 1, CHOOSE k \in DOMAIN ops : ops[k] = "rep_child_buffer0")
  ELSE <<>>

\* C29: an attempt at a TSTEP_EXIT_SYSCALL step that a trap interrupts has
\* made the boundary advance and nothing else; the attempt that retires the
\* frame makes the advance first (executed syscall only), then pushes the
\* recorded data num_emu_args times, then the return value if emu_ret is
\* set, then compares the registers, and last (emulated syscall only) steps
\* over the syscall instruction between a read and a write of the registers.
C29_ExitSyscallOrder ==
  [][ (rlast'.op = "try" /\ cur_step.action = "TSTEP_EXIT_SYSCALL") =>
        LET ops == rlast'.ops IN
        /\ rlast'.ret # 0 =>
             /\ ~cur_step.emu
             /\ \A k \in DOMAIN ops : ops[k] \in PtraceRequests \cup {"waitpid"}
        /\ rlast'.retired =>
             /\ Called(ops, "rep_child_buffer0") = ~cur_step.emu
             /\ \A k \in DOMAIN UpToBoundary(ops) :
                  UpToBoundary(ops)[k] \in
                    PtraceRequests \cup {"waitpid", "rep_child_buffer0"}
             /\ AfterBoundary(ops) =
                  Repeat("set_child_data", cur_step.num_emu_args)
                  \o (IF cur_step.emu_ret THEN <<"set_return_value">>
                      ELSE <<>>)
                  \o (IF validate THEN <<"compare_register_files">> ELSE <<>>)
                  \o (IF cur_step.emu
                      THEN <<"read_child_registers",
                             "PTRACE_SYSEMU_SINGLESTEP", "waitpid",
                             "write_child_registers">>
                      ELSE <<>>)
                  \o post_frame(trace_frame)
    ]_vars

\* the exit of an executed syscall with recorded data and a return value has
\* been retired while the debugger steps this thread
C29_Witness ==
  /\ rlast.op = "try" /\ rlast.retired
  /\ cur_step.action = "TSTEP_EXIT_SYSCALL" /\ ~cur_step.emu
  /\ cur_step.num_emu_args = MaxEmuArgs /\ cur_step.emu_ret
  /\ reqAssigned /\ rreq.type = "DREQ_STEP"
  /\ Called(rlast.ops, "set_child_data")

\* the request last read from the debugger is a step of the task replayed
LastRequestIsStep ==
  /\ reqAssigned /\ rreq.type = "DREQ_STEP"
  /\ rreq.target = get_threadid(ctx_tid)

\* C30 (as stated): the ptrace request of an advance is PTRACE_SYSEMU,
\* PTRACE_SYSEMU_SINGLESTEP, PTRACE_SYSCALL or PTRACE_SINGLESTEP by the
\* step's emu and by whether the last debugger request is a step of this
\* thread; a TSTEP_RETIRE step makes no ptrace request and returns 0.
C30_PtraceRequest ==
  [][ rlast'.op = "try" =>
        /\ cur_step.action = "TSTEP_RETIRE" =>
             /\ \A k \in DOMAIN rlast'.ops : rlast'.ops[k] \notin PtraceRequests
             /\ rlast'.ret = 0 /\ rlast'.retired
        /\ Waits(cur_step) =>
             \A k \in DOMAIN rlast'.ops :
               rlast'.ops[k] \in PtraceRequests =>
                 rlast'.ops[k] =
                   CASE cur_step.emu /\ ~LastRequestIsStep -> "PTRACE_SYSEMU"
                     [] cur_step.emu /\ LastRequestIsStep ->
                          "PTRACE_SYSEMU_SINGLESTEP"
                     [] ~cur_step.emu /\ ~LastRequestIsStep -> "PTRACE_SYSCALL"
                     [] ~cur_step.emu /\ LastRequestIsStep ->
                          "PTRACE_SINGLESTEP"
    ]_vars

\* C31 (as stated): a try_one_trace_step() reads a req that has been assigned
\* earlier in the same frame, by the debugger gate or by the request service
\* after a trap.
C31_RequestAssignedBeforeUse ==
  [][ rlast'.op = "try" => reqAssigned ]_vars

=============================================================================
